---- MODULE Spec2Model ----
(***************************************************************************)
(* claude-memory: the chunk log (chunker.py, config.py), the vector and    *)
(* keyword indexes (store.py, text_index.py) and the hybrid search         *)
(* (Store.search), modelled as state machines.                             *)
(*                                                                         *)
(* Strings that the code inspects character by character (chunk ids) are   *)
(* sequences of one-character strings, so that f"{base_id}-{i}" and        *)
(* x[0][0] are computed as the code computes them.                         *)
(*                                                                         *)
(*   Spec        the chunk log: source files change, markers get lost,     *)
(*               lines of other machines arrive, sync_chunks runs.         *)
(*   SpecSearch  the two indexes over a growing logical chunk set, and     *)
(*               Store.search over them.                                   *)
(*   SpecMerge   the score merge of Store.search over candidate lists.     *)
(*   SpecChunk   chunk_conversation over a transcript that grows message   *)
(*               by message.                                               *)
(***************************************************************************)
EXTENDS Integers, Sequences, FiniteSets, TLC

VARIABLES
    sources,      \* conversation file path -> [mtime, content, broken]
    processed,    \* processed.json: file name -> mtime string, NoMarker, or NotADict
    shards,       \* chunk-log shard name -> sequence of lines
    ret,          \* what sync_chunks returned, Raised, or NoRet after an outside change
    op,           \* the operation that produced this state
    events,       \* outside changes so far: source modifications and arrived lines
    collection,   \* the ChromaDB collection: sequence of entries, in insertion order
    fts,          \* chunks_fts rows, in rowid order
    indexed,      \* indexed_chunks: set of chunk ids
    results,      \* what the last index, merge or chunk call returned
    call          \* the arguments of the last index, merge or chunk call

logVars == <<sources, processed, shards, ret, events>>
idxVars == <<collection, fts, indexed, results, call>>
vars == <<sources, processed, shards, ret, op, events,
          collection, fts, indexed, results, call>>

(***************************************************************************)
(* Bounds of the model.                                                    *)
(***************************************************************************)
MaxEvents == 3

(***************************************************************************)
(* Program constants.                                                      *)
(***************************************************************************)
CONTEXT_BEFORE == 1
CONTEXT_AFTER == 1
MAX_CHUNK_CHARS == 1400
OVERLAP_CHARS == 280

(***************************************************************************)
(* Generic helpers.                                                        *)
(***************************************************************************)
Min(a, b) == IF a <= b THEN a ELSE b
Max(a, b) == IF a >= b THEN a ELSE b

RECURSIVE Concat(_)
Concat(ss) == IF ss = <<>> THEN <<>> ELSE Head(ss) \o Concat(Tail(ss))

Range(s) == {s[i] : i \in 1..Len(s)}

\* str(i) for a non-negative integer, as a sequence of characters
DigitChars == <<"0", "1", "2", "3", "4", "5", "6", "7", "8", "9">>
RECURSIVE Digits(_)
Digits(i) == IF i < 10 THEN <<DigitChars[i + 1]>>
             ELSE Digits(i \div 10) \o <<DigitChars[(i % 10) + 1]>>

(***************************************************************************)
(* chunker.py: the Chunk Builder.                                          *)
(*                                                                         *)
(* A message content is a sequence of paragraphs (joined by "\n\n"); a     *)
(* paragraph is a sequence of words (joined by " "), or nothing but        *)
(* spaces; a word is a run of characters that holds no separator of        *)
(* SEPARATORS.  The contents modelled hold "\n\n" and " " only, so         *)
(* recursive_split works at these two separators and at the hard split.    *)
(* A chunk text is [ov, atoms]: the atoms are its "\n\n"-free stretches,   *)
(* ov is the length of the overlap prefix that add_overlap put in front.   *)
(***************************************************************************)
\* a word: the characters t, then fill more lower-case letters
Word(t, fill) == [t |-> t, fill |-> fill]
WordLen(w) == Len(w.t) + w.fill

RECURSIVE WordsLen(_)
WordsLen(ws) ==
    IF ws = <<>> THEN 0
    ELSE IF Len(ws) = 1 THEN WordLen(ws[1])
    ELSE WordLen(ws[1]) + 1 + WordsLen(Tail(ws))

\* a paragraph of words, and a paragraph of n spaces
Para(words) == [words |-> words, blank |-> 0]
Blank(n) == [words |-> <<>>, blank |-> n]
ParaLen(p) == IF p.words = <<>> THEN p.blank ELSE WordsLen(p.words)

\* a content of one word of n letters
Plain(n) == <<Para(<<Word(<<>>, n)>>)>>

Message(role, uuid, content) == [role |-> role, uuid |-> uuid, content |-> content]

\* an exchange is the tuple (user_msg, msg) of the first pass
Exchange(uuid, ulen, alen) ==
    [user |-> Message("user", <<"u">> \o uuid, Plain(ulen)),
     assistant |-> Message("assistant", uuid, Plain(alen))]

\* the exchanges that the transcripts of the chunk log are made of
ExchangePool ==
    { Exchange(<<"a", "1">>, 10, 50),
      Exchange(<<"b", "2">>, 100, 600),
      Exchange(<<"c", "3">>, 700, 700) }

\* a "\n\n"-free stretch of a text: the characters from .. from + len of words
Atom(k, u, words, from, len) ==
    [k |-> k, u |-> u, words |-> words, from |-> from, len |-> len]
ParaAtom(k, u, p) == Atom(k, u, p.words, 0, ParaLen(p))

\* label + " " + content, paragraph by paragraph
Labelled(k, label, u, content) ==
    [i \in 1..Len(content) |->
        IF i = 1
        THEN ParaAtom(k, u, Para(<<Word(label, 0)>> \o content[1].words))
        ELSE ParaAtom("P", u, content[i])]

\* f"User: {user.content}\n\nAssistant: {assistant.content}"
ExchangeAtoms(e) ==
    Labelled("U", <<"U", "s", "e", "r", ":">>, e.assistant.uuid, e.user.content)
        \o Labelled("A", <<"A", "s", "s", "i", "s", "t", "a", "n", "t", ":">>,
                    e.assistant.uuid, e.assistant.content)

SepAtom == ParaAtom("-", <<>>, Para(<<Word(<<"-", "-", "-">>, 0)>>))

\* "\n\n---\n\n".join(all_parts)
RECURSIVE JoinParts(_)
JoinParts(ps) ==
    IF ps = <<>> THEN <<>>
    ELSE IF Len(ps) = 1 THEN ExchangeAtoms(ps[1])
    ELSE ExchangeAtoms(ps[1]) \o <<SepAtom>> \o JoinParts(Tail(ps))

RECURSIVE AtomsLen(_)
AtomsLen(as) ==
    IF as = <<>> THEN 0
    ELSE IF Len(as) = 1 THEN as[1].len
    ELSE as[1].len + 2 + AtomsLen(Tail(as))

\* len(text): ov is the length of the overlap prefix (with its " ")
TextLen(t) == t.ov + AtomsLen(t.atoms)

\* the hard split of an atom of one word:
\* part[i : i + MAX_CHUNK_CHARS] for i in range(0, len(part), MAX_CHUNK_CHARS - OVERLAP_CHARS)
HardSplit(a) ==
    LET step == MAX_CHUNK_CHARS - OVERLAP_CHARS
        count == (a.len + step - 1) \div step
    IN [i \in 1..count |->
           << Atom("h", a.u, a.words, (i - 1) * step,
                   Min(a.len - (i - 1) * step, MAX_CHUNK_CHARS)) >>]

\* the loop of recursive_split over part.split(" "), for the atom a; a piece
\* is an atom of the words it joins.  After an oversize word, current is
\* left as it was.
RECURSIVE WordLoop(_, _, _, _)
WordLoop(a, parts, chunks, current) ==
    IF parts = <<>>
    THEN IF current # <<>>
         THEN Append(chunks, <<Atom("w", a.u, current, 0, WordsLen(current))>>)
         ELSE chunks
    ELSE LET part == Head(parts)
             candidate == IF current # <<>> THEN Append(current, part) ELSE <<part>>
             flushed == IF current # <<>>
                        THEN Append(chunks, <<Atom("w", a.u, current, 0, WordsLen(current))>>)
                        ELSE chunks
         IN IF WordsLen(candidate) <= MAX_CHUNK_CHARS
            THEN WordLoop(a, Tail(parts), chunks, candidate)
            ELSE IF WordLen(part) > MAX_CHUNK_CHARS
            THEN WordLoop(a, Tail(parts),
                          flushed \o HardSplit(Atom("w", a.u, <<part>>, 0, WordLen(part))),
                          current)
            ELSE WordLoop(a, Tail(parts), flushed, <<part>>)

\* recursive_split(part, remaining_seps) for a part longer than MAX_CHUNK_CHARS.
\* All parts of a run of spaces are empty: chunks stays empty and the run
\* itself is returned.
SplitPart(a) ==
    IF a.words = <<>> THEN << <<a>> >>
    ELSE IF Len(a.words) = 1 THEN HardSplit(a)
    ELSE LET chunks == WordLoop(a, a.words, <<>>, <<>>)
         IN IF chunks # <<>> THEN chunks ELSE << <<a>> >>

\* recursive_split's loop over text.split("\n\n"); current = "" is <<>>, or
\* an empty paragraph alone.  After an oversize part, current is left as it was.
RECURSIVE SplitLoop(_, _, _)
SplitLoop(parts, chunks, current) ==
    IF parts = <<>>
    THEN IF AtomsLen(current) > 0 THEN Append(chunks, current) ELSE chunks
    ELSE LET part == Head(parts)
             candidate == IF AtomsLen(current) > 0 THEN Append(current, part) ELSE <<part>>
             flushed == IF AtomsLen(current) > 0 THEN Append(chunks, current) ELSE chunks
         IN IF AtomsLen(candidate) <= MAX_CHUNK_CHARS
            THEN SplitLoop(Tail(parts), chunks, candidate)
            ELSE IF part.len > MAX_CHUNK_CHARS
            THEN SplitLoop(Tail(parts), flushed \o SplitPart(part), current)
            ELSE SplitLoop(Tail(parts), flushed, <<part>>)

recursive_split(atoms) ==
    IF AtomsLen(atoms) <= MAX_CHUNK_CHARS THEN <<atoms>>
    ELSE IF Len(atoms) = 1 THEN SplitPart(atoms[1])
    ELSE LET chunks == SplitLoop(atoms, <<>>, <<>>)
         IN IF chunks # <<>> THEN chunks ELSE <<atoms>>

\* add_overlap: piece i > 1 gets the last OVERLAP_CHARS of piece i-1 and " "
add_overlap(pieces) ==
    [i \in 1..Len(pieces) |->
        [ov |-> IF i = 1 THEN 0
                ELSE Min(AtomsLen(pieces[i - 1]), OVERLAP_CHARS) + 1,
         atoms |-> pieces[i]]]

\* the Chunk dataclass.  Every assistant message modelled carries the
\* timestamp "t", the session s and one Read call on a.py.
Chunk(id, text, turn, parent, idx, total) ==
    [id |-> id, text |-> text, timestamp |-> "t", session_id |-> <<"s">>,
     chunk_type |-> "turn", turn_index |-> turn,
     parent_turn_id |-> parent, chunk_index |-> idx, total_chunks |-> total,
     tools_used |-> "Read", files_touched |-> "a.py", commands_run |-> ""]

\* mutant: the fragments are numbered from 1
create_chunks_with_context_FromOne(exchanges, i) ==
    LET start == Max(1, i - CONTEXT_BEFORE)
        end == Min(Len(exchanges), i + CONTEXT_AFTER)
        atoms == JoinParts(SubSeq(exchanges, start, end))
        base_id == exchanges[i].assistant.uuid
    IN IF AtomsLen(atoms) <= MAX_CHUNK_CHARS
       THEN << Chunk(base_id, [ov |-> 0, atoms |-> atoms], i - 1, <<>>, 0, 1) >>
       ELSE LET parts == add_overlap(recursive_split(atoms))
            IN [j \in 1..Len(parts) |->
                   Chunk(IF Len(parts) > 1
                         THEN base_id \o <<"-">> \o Digits(j) ELSE base_id,
                         parts[j], i - 1, base_id, j, Len(parts))]

\* create_chunks_with_context(exchanges, current_index), current_index 1-based here
create_chunks_with_context(exchanges, i) ==
    LET start == Max(1, i - CONTEXT_BEFORE)
        end == Min(Len(exchanges), i + CONTEXT_AFTER)
        atoms == JoinParts(SubSeq(exchanges, start, end))
        base_id == exchanges[i].assistant.uuid
    IN IF AtomsLen(atoms) <= MAX_CHUNK_CHARS
       THEN << Chunk(base_id, [ov |-> 0, atoms |-> atoms], i - 1, <<>>, 0, 1) >>
       ELSE LET parts == add_overlap(recursive_split(atoms))
            IN [j \in 1..Len(parts) |->
                   Chunk(IF Len(parts) > 1
                         THEN base_id \o <<"-">> \o Digits(j - 1) ELSE base_id,
                         parts[j], i - 1, base_id, j - 1, Len(parts))]

\* chunk_conversation: second pass over the exchanges of one file
chunk_conversation(exchanges) ==
    Concat([i \in 1..Len(exchanges) |-> create_chunks_with_context(exchanges, i)])

(***************************************************************************)
(* config.py and chunker.py: the chunk log and its sync.                   *)
(***************************************************************************)
\* get_conversation_files(): sorted paths over all project directories.
\* Two project directories may hold a file of the same name.
SourcePaths == << <<"p1", "s1.jsonl">>, <<"p1", "s2.jsonl">>, <<"p2", "s1.jsonl">> >>

\* filepath.name, the key of the processed-marker table
FileKey(path) == path[2]

FileKeys == {FileKey(SourcePaths[i]) : i \in 1..Len(SourcePaths)}

NoMarker == -1
\* processed.json holds valid JSON that is no object (a list): json.load
\* returns it, `file_key in processed` is False for every key and
\* processed[file_key] = mtime raises TypeError
NotADict == -2
Raised == <<"raised">>
NoRet == <<"none">>

\* get_all_chunk_files(): legacy chunks.jsonl first, then sorted chunks-*.jsonl
LEGACY_FILE == "chunks.jsonl"
CHUNKS_FILE == "chunks-beta.jsonl"
OTHER_FILE == "chunks-gamma.jsonl"
get_all_chunk_files == <<LEGACY_FILE, CHUNKS_FILE, OTHER_FILE>>

\* One line of a shard.  kind: "rec" a record with every required field,
\* "partial" a JSON object with an id and no text, "badjson" not JSON,
\* "nonobj" valid JSON that is no object (a list, a number, null).
NoChunk == Chunk(<<>>, [ov |-> 0, atoms |-> <<>>], 0, <<>>, 0, 1)
RecLine(c) == [kind |-> "rec", chunk |-> c]
JunkLine(kind, id) == [kind |-> kind, chunk |-> [NoChunk EXCEPT !.id = id]]

\* a record of the older format: the four required fields and nothing else
OldLine(c) ==
    [kind |-> "rec",
     chunk |-> [f \in {"id", "text", "timestamp", "session_id"} |-> c[f]]]

\* all lines of all shards in reading order
AllLines(sh) == Concat([i \in 1..Len(get_all_chunk_files) |-> sh[get_all_chunk_files[i]]])

\* load_existing_chunk_ids: json.loads then chunk.get("id", "")
RECURSIVE ExistingIdsLoop(_, _)
ExistingIdsLoop(lines, ids) ==
    IF lines = <<>> THEN [raised |-> FALSE, ids |-> ids]
    ELSE LET l == Head(lines)
         IN IF l.kind = "badjson" THEN ExistingIdsLoop(Tail(lines), ids)
            ELSE IF l.kind = "nonobj" THEN [raised |-> TRUE, ids |-> ids]
            ELSE ExistingIdsLoop(Tail(lines), ids \cup {l.chunk.id})

load_existing_chunk_ids(sh) == ExistingIdsLoop(AllLines(sh), {})

\* chunks_by_id[chunk.id] = chunk: a dict keeps the position of the first
\* insertion of a key and the value of the last
\* mutant: every record is kept
DictPut_KeepsAll(d, c) == Append(d, c)

DictPut(d, c) ==
    IF \E i \in 1..Len(d) : d[i].id = c.id
    THEN [i \in 1..Len(d) |-> IF d[i].id = c.id THEN c ELSE d[i]]
    ELSE Append(d, c)

\* Chunk(id=data["id"], ..., chunk_type=data.get("chunk_type", "turn"), ...):
\* the fields that a record lacks get their defaults
\* mutant: total_chunks defaults to 0
FromData_TotalZero(data) ==
    LET defaults == [chunk_type |-> "turn", turn_index |-> 0, parent_turn_id |-> <<>>,
                     chunk_index |-> 0, total_chunks |-> 0,
                     tools_used |-> "", files_touched |-> "", commands_run |-> ""]
    IN [f \in DOMAIN data \cup DOMAIN defaults |->
           IF f \in DOMAIN data THEN data[f] ELSE defaults[f]]

FromData(data) ==
    LET defaults == [chunk_type |-> "turn", turn_index |-> 0, parent_turn_id |-> <<>>,
                     chunk_index |-> 0, total_chunks |-> 1,
                     tools_used |-> "", files_touched |-> "", commands_run |-> ""]
    IN [f \in DOMAIN data \cup DOMAIN defaults |->
           IF f \in DOMAIN data THEN data[f] ELSE defaults[f]]

\* load_all_chunks: JSONDecodeError and KeyError skip the line
RECURSIVE LoadLoop(_, _)
LoadLoop(lines, d) ==
    IF lines = <<>> THEN [raised |-> FALSE, chunks |-> d]
    ELSE LET l == Head(lines)
         IN IF l.kind \in {"badjson", "partial"} THEN LoadLoop(Tail(lines), d)
            ELSE IF l.kind = "nonobj" THEN [raised |-> TRUE, chunks |-> <<>>]
            ELSE LoadLoop(Tail(lines), DictPut(d, FromData(l.chunk)))

load_all_chunks(sh) == LoadLoop(AllLines(sh), <<>>)

\* the inner loop of sync_chunks over the chunks of one file:
\* st = [existing, appended, new_chunks]
\* mutant: existing_ids.add(chunk.id) is left out
RECURSIVE AppendNew_NoAdd(_, _)
AppendNew_NoAdd(chunks, st) ==
    IF chunks = <<>> THEN st
    ELSE LET c == Head(chunks)
         IN IF c.id \notin st.existing
            THEN AppendNew_NoAdd(Tail(chunks),
                                 [existing |-> st.existing,
                                  appended |-> Append(st.appended, RecLine(c)),
                                  new_chunks |-> st.new_chunks + 1])
            ELSE AppendNew_NoAdd(Tail(chunks), st)

RECURSIVE AppendNew(_, _)
AppendNew(chunks, st) ==
    IF chunks = <<>> THEN st
    ELSE LET c == Head(chunks)
         IN IF c.id \notin st.existing
            THEN AppendNew(Tail(chunks),
                           [existing |-> st.existing \cup {c.id},
                            appended |-> Append(st.appended, RecLine(c)),
                            new_chunks |-> st.new_chunks + 1])
            ELSE AppendNew(Tail(chunks), st)

\* the end of one pass of the outer loop: file_had_new, new_files and the
\* marker, after the inner loop left `after`; the marker assignment raises
\* when the loaded table is no dict
FileDone(st, file_key, mtime, after) ==
    [processed |-> IF st.processed[file_key] = NotADict THEN st.processed
                   ELSE [st.processed EXCEPT ![file_key] = mtime],
     existing |-> after.existing,
     appended |-> after.appended,
     new_chunks |-> after.new_chunks,
     new_files |-> st.new_files + (IF after.new_chunks > st.new_chunks THEN 1 ELSE 0),
     parsed |-> st.parsed,
     raised |-> st.processed[file_key] = NotADict]

\* the outer loop of sync_chunks over the conversation files:
\* st = [processed, existing, appended, new_chunks, new_files, parsed, raised];
\* parsed lists the files that were handed to chunk_conversation.
\* A file that parse_conversation cannot read (open fails, or a line holds
\* JSON that is no object) raises out of chunk_conversation and out of the loop.
RECURSIVE SyncLoop(_, _, _)
SyncLoop(paths, src, st) ==
    IF paths = <<>> \/ st.raised THEN st
    ELSE LET path == Head(paths)
             mtime == src[path].mtime
             file_key == FileKey(path)
         IN IF st.processed[file_key] = mtime
            THEN SyncLoop(Tail(paths), src, st)
            ELSE IF src[path].broken
            THEN [st EXCEPT !.raised = TRUE, !.parsed = Append(@, path)]
            ELSE SyncLoop(Tail(paths), src,
                          FileDone([st EXCEPT !.parsed = Append(@, path)], file_key, mtime,
                                   AppendNew(chunk_conversation(src[path].content),
                                             [existing |-> st.existing,
                                              appended |-> st.appended,
                                              new_chunks |-> st.new_chunks])))

\* what sync_chunks leaves when the loop ended in st: the lines are appended
\* as the loop goes, save_processed runs after the loop
SyncResult(proc, st) ==
    IF st.raised
    THEN [raised |-> TRUE, processed |-> proc, appended |-> st.appended,
          new_chunks |-> 0, new_files |-> 0, parsed |-> st.parsed]
    ELSE [raised |-> FALSE, processed |-> st.processed, appended |-> st.appended,
          new_chunks |-> st.new_chunks, new_files |-> st.new_files, parsed |-> st.parsed]

\* sync_chunks as a function of the disk: what it appends, saves and returns
sync_chunks(src, proc, sh) ==
    LET existing_ids == load_existing_chunk_ids(sh)
    IN IF existing_ids.raised
       THEN [raised |-> TRUE, processed |-> proc, appended |-> <<>>,
             new_chunks |-> 0, new_files |-> 0, parsed |-> <<>>]
       ELSE SyncResult(proc,
                       SyncLoop(SourcePaths, src,
                                [processed |-> proc, existing |-> existing_ids.ids,
                                 appended |-> <<>>, new_chunks |-> 0, new_files |-> 0,
                                 parsed |-> <<>>, raised |-> FALSE]))

(***************************************************************************)
(* summarizer.py: one summary chunk per conversation.                      *)
(***************************************************************************)
\* filepath.stem
Stem(path) == IF FileKey(path) = "s1.jsonl" THEN <<"s", "1">> ELSE <<"s", "2">>

\* what `ollama run` does for one conversation: it prints a summary, prints
\* nothing, exits non-zero, or runs into the timeout of 60 seconds
Outcomes == {"ok", "empty", "nonzero", "timeout"}

SummaryText == [ov |-> 0, atoms |-> <<ParaAtom("S", <<>>, Para(<<Word(<<"s", "u", "m">>, 0)>>))>>]

\* generate_summary_ollama: result.stdout.strip(), or None
generate_summary_ollama(outcome) ==
    IF outcome = "ok" THEN [none |-> FALSE, text |-> SummaryText]
    ELSE IF outcome = "empty" THEN [none |-> FALSE, text |-> [ov |-> 0, atoms |-> <<>>]]
    ELSE [none |-> TRUE, text |-> [ov |-> 0, atoms |-> <<>>]]

\* Chunk(id=f"summary-{session_id}", text=summary, ..., chunk_type="summary",
\* turn_index=-1) with the defaults of the other fields
SummaryChunk(path, summary) ==
    [id |-> <<"s", "u", "m", "m", "a", "r", "y", "-">> \o Stem(path),
     text |-> summary, timestamp |-> "t", session_id |-> Stem(path),
     chunk_type |-> "summary", turn_index |-> -1,
     parent_turn_id |-> <<>>, chunk_index |-> 0, total_chunks |-> 1,
     tools_used |-> "", files_touched |-> "", commands_run |-> ""]

\* get_existing_summary_ids
get_existing_summary_ids(sh) ==
    LET all == load_all_chunks(sh)
    IN [raised |-> all.raised,
        ids |-> {all.chunks[i].id :
                    i \in {j \in 1..Len(all.chunks) : all.chunks[j].chunk_type = "summary"}}]

\* one pass of the loop of sync_summaries over what generate_summaries
\* yielded: a chunk is appended, None is counted as failed
\* mutant: a failed conversation ends the run
Yielded_FailureRaises(st, path, summary) ==
    IF ~summary.none /\ TextLen(summary.text) > 0
    THEN [st EXCEPT !.appended = Append(@, RecLine(SummaryChunk(path, summary.text))),
                    !.generated = @ + 1]
    ELSE [st EXCEPT !.raised = TRUE]

Yielded(st, path, summary) ==
    IF ~summary.none /\ TextLen(summary.text) > 0
    THEN [st EXCEPT !.appended = Append(@, RecLine(SummaryChunk(path, summary.text))),
                    !.generated = @ + 1]
    ELSE [st EXCEPT !.failed = @ + 1]

\* generate_summaries driven by sync_summaries, over the conversation files:
\* st = [appended, generated, failed, raised]; get_conversation_text counts
\* every (user, assistant) pair as a turn
RECURSIVE SummaryLoop(_, _, _, _, _)
SummaryLoop(paths, src, existing_ids, outcome, st) ==
    IF paths = <<>> \/ st.raised THEN st
    ELSE LET path == Head(paths)
         IN IF SummaryChunk(path, SummaryText).id \in existing_ids
            THEN SummaryLoop(Tail(paths), src, existing_ids, outcome, st)
            ELSE IF src[path].broken
            THEN [st EXCEPT !.raised = TRUE]
            ELSE IF Len(src[path].content) < 2
            THEN SummaryLoop(Tail(paths), src, existing_ids, outcome, st)
            ELSE SummaryLoop(Tail(paths), src, existing_ids, outcome,
                             Yielded(st, path, generate_summary_ollama(outcome[path])))

\* sync_summaries as a function of the disk and of what ollama does
sync_summaries(src, sh, outcome) ==
    LET existing == get_existing_summary_ids(sh)
    IN IF existing.raised
       THEN [appended |-> <<>>, generated |-> 0, failed |-> 0, raised |-> TRUE]
       ELSE SummaryLoop(SourcePaths, src, existing.ids, outcome,
                        [appended |-> <<>>, generated |-> 0, failed |-> 0, raised |-> FALSE])

(***************************************************************************)
(* The chunk log as a state machine.                                       *)
(***************************************************************************)
\* lines that a merge can bring in from another machine, and the shard they land in
ForeignText == [ov |-> 0, atoms |-> <<SepAtom>>]
ForeignArrivals ==
    { <<LEGACY_FILE, OldLine(Chunk(<<"a", "1">>, ForeignText, 0, <<>>, 0, 1))>>,
      <<OTHER_FILE, RecLine(Chunk(<<"a", "1">>, ForeignText, 0, <<>>, 0, 1))>>,
      <<OTHER_FILE, JunkLine("partial", <<"b", "2">>)>>,
      <<OTHER_FILE, JunkLine("badjson", <<>>)>>,
      <<LEGACY_FILE, JunkLine("nonobj", <<>>)>> }

LogInit ==
    /\ sources = [p \in Range(SourcePaths) |->
                     [mtime |-> 0, content |-> <<>>, broken |-> FALSE]]
    /\ processed = [k \in FileKeys |-> NoMarker]
    /\ shards = [f \in Range(get_all_chunk_files) |-> <<>>]
    /\ ret = NoRet
    /\ events = 0

\* a conversation goes on: the transcript gets one more exchange
AppendExchange(p, e) ==
    /\ events < MaxEvents
    /\ sources' = [sources EXCEPT ![p] = [mtime |-> @.mtime + 1,
                                          content |-> Append(@.content, e),
                                          broken |-> @.broken]]
    /\ events' = events + 1
    /\ op' = "env"
    /\ ret' = NoRet
    /\ UNCHANGED <<processed, shards>>

\* a transcript is rewritten with the same content: only its mtime changes
Touch(p) ==
    /\ events < MaxEvents
    /\ sources[p].content # <<>>
    /\ sources' = [sources EXCEPT ![p].mtime = @ + 1]
    /\ events' = events + 1
    /\ op' = "env"
    /\ ret' = NoRet
    /\ UNCHANGED <<processed, shards>>

\* a write leaves the transcript with a line that holds JSON but no object
\* (or unreadable): parse_conversation raises on it from now on
Corrupt(p) ==
    /\ events < MaxEvents
    /\ ~sources[p].broken
    /\ sources' = [sources EXCEPT ![p] = [mtime |-> @.mtime + 1, content |-> @.content,
                                          broken |-> TRUE]]
    /\ events' = events + 1
    /\ op' = "env"
    /\ ret' = NoRet
    /\ UNCHANGED <<processed, shards>>

\* processed.json is deleted or unreadable: load_processed returns {}
LoseMarkers ==
    /\ processed # [k \in FileKeys |-> NoMarker]
    /\ processed' = [k \in FileKeys |-> NoMarker]
    /\ op' = "env"
    /\ ret' = NoRet
    /\ UNCHANGED <<sources, shards, events>>

\* processed.json is overwritten with JSON that is no object
CorruptMarkers ==
    /\ processed # [k \in FileKeys |-> NotADict]
    /\ processed' = [k \in FileKeys |-> NotADict]
    /\ op' = "env"
    /\ ret' = NoRet
    /\ UNCHANGED <<sources, shards, events>>

\* a line written by another machine arrives in a shard that is not ours
Arrive(f, l) ==
    /\ events < MaxEvents
    /\ shards' = [shards EXCEPT ![f] = Append(@, l)]
    /\ events' = events + 1
    /\ op' = "env"
    /\ ret' = NoRet
    /\ UNCHANGED <<sources, processed>>

\* the disk and the returned value after a run with the outcome r
Written(r) ==
    /\ shards' = [shards EXCEPT ![CHUNKS_FILE] = @ \o r.appended]
    /\ processed' = r.processed
    /\ ret' = IF r.raised THEN Raised ELSE <<r.new_chunks, r.new_files>>
    /\ op' = "sync"
    /\ UNCHANGED <<sources, events>>

SyncChunks == Written(sync_chunks(sources, processed, shards))

\* the disk and the returned value after a summary run with the outcome r
\* mutant: the summaries go to the legacy chunks.jsonl
Summarized_ToLegacy(r) ==
    /\ shards' = [shards EXCEPT ![LEGACY_FILE] = @ \o r.appended]
    /\ ret' = IF r.raised THEN Raised ELSE <<r.generated, r.failed>>
    /\ op' = "summarize"
    /\ UNCHANGED <<sources, processed, events>>

Summarized(r) ==
    /\ shards' = [shards EXCEPT ![CHUNKS_FILE] = @ \o r.appended]
    /\ ret' = IF r.raised THEN Raised ELSE <<r.generated, r.failed>>
    /\ op' = "summarize"
    /\ UNCHANGED <<sources, processed, events>>

\* the conversations that a run hands to ollama: long enough, no summary yet
Summarizable ==
    {p \in Range(SourcePaths) :
        /\ Len(sources[p].content) >= 2
        /\ SummaryChunk(p, SummaryText).id \notin load_existing_chunk_ids(shards).ids}

SyncSummaries(outcome) == Summarized(sync_summaries(sources, shards, outcome))

IdxIdle ==
    /\ collection = <<>>
    /\ fts = <<>>
    /\ indexed = {}
    /\ results = <<>>
    /\ call = <<>>

Init ==
    /\ LogInit
    /\ op = "init"
    /\ IdxIdle

Next ==
    \/ \E p \in Range(SourcePaths), e \in ExchangePool : AppendExchange(p, e) /\ UNCHANGED idxVars
    \/ \E p \in Range(SourcePaths) : Touch(p) /\ UNCHANGED idxVars
    \/ \E p \in Range(SourcePaths) : Corrupt(p) /\ UNCHANGED idxVars
    \/ LoseMarkers /\ UNCHANGED idxVars
    \/ CorruptMarkers /\ UNCHANGED idxVars
    \/ \E a \in ForeignArrivals : Arrive(a[1], a[2]) /\ UNCHANGED idxVars
    \/ SyncChunks /\ UNCHANGED idxVars

Spec == Init /\ [][Next]_vars

\* the chunk log with summaries: conversations go on by exchanges that fit
\* into one chunk, records of other machines arrive, sync_chunks and
\* sync_summaries run
NextSummary ==
    \/ \E p \in Range(SourcePaths), e \in {x \in ExchangePool : Len(chunk_conversation(<<x>>)) = 1} :
          AppendExchange(p, e) /\ UNCHANGED idxVars
    \/ \E a \in {x \in ForeignArrivals : x[2].kind = "rec"} : Arrive(a[1], a[2]) /\ UNCHANGED idxVars
    \/ SyncChunks /\ UNCHANGED idxVars
    \/ \E outcome \in [Summarizable -> Outcomes] : SyncSummaries(outcome) /\ UNCHANGED idxVars

\* every conversation has had its first exchange, nothing is synced yet
InitSummary ==
    /\ sources = [p \in Range(SourcePaths) |->
                     [mtime |-> 1,
                      content |-> <<IF Stem(p) = <<"s", "1">>
                                    THEN Exchange(<<"a", "1">>, 10, 50)
                                    ELSE Exchange(<<"b", "2">>, 100, 600)>>,
                      broken |-> FALSE]]
    /\ processed = [k \in FileKeys |-> NoMarker]
    /\ shards = [f \in Range(get_all_chunk_files) |-> <<>>]
    /\ ret = NoRet
    /\ events = 0
    /\ op = "init"
    /\ IdxIdle

SpecSummary == InitSummary /\ [][NextSummary]_vars

(***************************************************************************)
(* Properties of the chunk log (checked under Spec).                       *)
(***************************************************************************)
\* ids of the lines of the log that carry an id
LogIds(sh) ==
    LET lines == AllLines(sh)
    IN {lines[i].chunk.id : i \in {j \in 1..Len(lines) : lines[j].kind \in {"rec", "partial"}}}

\* the lines that this step appended to this machine's shard
Appended ==
    SubSeq(shards'[CHUNKS_FILE], Len(shards[CHUNKS_FILE]) + 1, Len(shards'[CHUNKS_FILE]))

\* the ids that chunk_conversation produces from the current source files
ProducedIds ==
    UNION { {c.id : c \in Range(chunk_conversation(sources[p].content))}
            : p \in Range(SourcePaths) }

\* C1: a sync_chunks run that directly follows a completed run, with no change
\* to any source file and no other writer in between, returns (0, 0) and
\* leaves every shard unchanged.
C1_IdempotentSync ==
    [][(op = "sync" /\ ret # Raised /\ op' = "sync")
        => (ret' = <<0, 0>> /\ shards' = shards)]_vars

\* C2: sync_chunks never appends a record whose id occurs in a shard (legacy
\* or machine-tagged) when the run starts, nor an id it appended earlier in
\* the same run.
C2_NoDuplicateAppend ==
    [][op' = "sync"
        => \A i \in 1..Len(Appended) :
              /\ Appended[i].chunk.id \notin LogIds(shards)
              /\ \A j \in 1..(i - 1) : Appended[j].chunk.id # Appended[i].chunk.id]_vars

\* a run completed, the sources produce an id that only a foreign shard holds,
\* and the run appended other ids to this machine's shard but not that one
C2_Witness ==
    /\ op = "sync" /\ ret # Raised
    /\ \A k \in FileKeys : processed[k] # NoMarker
    /\ shards[CHUNKS_FILE] # <<>>
    /\ \E id \in ProducedIds :
          /\ id \in LogIds([shards EXCEPT ![CHUNKS_FILE] = <<>>])
          /\ id \notin LogIds([f \in DOMAIN shards |->
                                  IF f = CHUNKS_FILE THEN shards[f] ELSE <<>>])
    /\ \E p \in Range(SourcePaths) : Len(sources[p].content) = 2

\* the well-formed records of all shards, in reading order
WellFormed(sh) == SelectSeq(AllLines(sh), LAMBDA l : l.kind = "rec")

LastOccurrence(lines, id) ==
    FromData(lines[CHOOSE i \in 1..Len(lines) :
                      /\ lines[i].chunk.id = id
                      /\ \A j \in (i + 1)..Len(lines) : lines[j].chunk.id # id].chunk)

LoadedIsLastWins(chunks, wf) ==
    /\ \A i, j \in 1..Len(chunks) : chunks[i].id = chunks[j].id => i = j
    /\ {chunks[i].id : i \in 1..Len(chunks)} = {wf[i].chunk.id : i \in 1..Len(wf)}
    /\ \A i \in 1..Len(chunks) : chunks[i] = LastOccurrence(wf, chunks[i].id)

\* C3: load_all_chunks returns exactly one chunk per distinct id of the
\* well-formed records of all shards, equal to the last physical occurrence
\* of that id in reading order (legacy first, then the sorted shards).
C3_LoadAllChunksLastWins ==
    LET r == load_all_chunks(shards)
    IN ~r.raised /\ LoadedIsLastWins(r.chunks, WellFormed(shards))

\* what remains of C3 where load_all_chunks does return
LoadAllChunksLastWinsWhenLoaded ==
    LET r == load_all_chunks(shards)
    IN ~r.raised => LoadedIsLastWins(r.chunks, WellFormed(shards))

(***************************************************************************)
(* store.py, text_index.py: the two indexes and the hybrid search.         *)
(*                                                                         *)
(* A document is the sequence of its words.  The embedding model is a      *)
(* fixed function of the text (the words' positions on a line, summed),    *)
(* the collection's distance is squared L2, and the BM25 score of a        *)
(* document is minus the number of its tokens that match the query.        *)
(* Scores are the rationals that the code's floats stand for, kept as      *)
(* reduced fractions <<p, q>> with q > 0.                                  *)
(***************************************************************************)
MaxN == 2

\* HYBRID_VECTOR_WEIGHT = 0.7 and the keyword-only penalty 0.5, in tenths
HYBRID_VECTOR_WEIGHT == 7
KEYWORD_ONLY_PENALTY == 5

RECURSIVE Gcd(_, _)
Gcd(a, b) == IF b = 0 THEN a ELSE Gcd(b, a % b)
Rat(p, q) == LET g == Gcd(p, q) IN <<p \div g, q \div g>>
RatLeq(x, y) == x[1] * y[2] <= y[1] * x[2]

\* stable sort of records by their integer field key (sorted(), ORDER BY)
StableSort(s) ==
    LET rank(i) == Cardinality({j \in 1..Len(s) :
                       \/ s[j].key < s[i].key
                       \/ s[j].key = s[i].key /\ j < i}) + 1
    IN [k \in 1..Len(s) |-> s[CHOOSE i \in 1..Len(s) : rank(i) = k]]

\* the order of the characters that chunk ids are made of (code points)
CharOrder == <<"-", "0", "1", "2", "3", "4", "5", "6", "7", "8", "9",
               "_", "a", "b", "c", "d", "e", "i", "n", "q", "u">>
Ord(ch) == CHOOSE i \in 1..Len(CharOrder) : CharOrder[i] = ch

\* the embedding model: a text's position is the sum of its words' positions
WordPos == ("auth" :> 40) @@ ("login" :> 2) @@ ("token" :> (0 - 3)) @@
           ("db" :> 10) @@ ("row" :> 1) @@ ("api" :> 70)
RECURSIVE Embedding(_)
Embedding(text) == IF text = <<>> THEN 0 ELSE WordPos[Head(text)] + Embedding(Tail(text))
Distance(query, text) ==
    (Embedding(query) - Embedding(text)) * (Embedding(query) - Embedding(text))

\* FTS5: "w1* OR w2*" matches a document that holds one of the words;
\* bm25() is negative, more negative = better match
MatchCount(text, query) == Cardinality({i \in 1..Len(text) : text[i] \in Range(query)})
Bm25(text, query) == 0 - MatchCount(text, query)

(***************************************************************************)
(* The chunks that the log of the search model receives, turn by turn.     *)
(***************************************************************************)
NumFragments == 5 * MaxN

RECURSIVE Rows(_)
Rows(j) == IF j = 0 THEN <<>> ELSE <<"row">> \o Rows(j - 1)

\* an unsplit turn, and the text that another machine chunked for the same turn
TurnA == Chunk(<<"a", "1">>, <<"auth", "login">>, 0, <<>>, 0, 1)
TurnALater == Chunk(<<"a", "1">>, <<"auth", "login", "token">>, 0, <<>>, 0, 1)
\* a turn that create_chunks_with_context split in two
TurnQ ==
    [j \in 1..2 |-> Chunk(<<"d", "4", "-">> \o Digits(j - 1),
                          <<"auth">> \o [k \in 1..j |-> "token"],
                          1, <<"d", "4">>, j - 1, 2)]
\* a long turn, split in NumFragments fragments
TurnP ==
    [j \in 1..NumFragments |->
        Chunk(<<"b", "2", "-">> \o Digits(j - 1), <<"db">> \o Rows(j - 1),
              3, <<"b", "2">>, j - 1, NumFragments)]
TurnC == Chunk(<<"c", "3">>, <<"api", "db">>, 2, <<>>, 0, 1)

RecLines(chunks) == [i \in 1..Len(chunks) |-> RecLine(chunks[i])]

\* what reaches the log, in order: <<shard, lines>>
LogSteps ==
    << <<CHUNKS_FILE, RecLines(<<TurnA>>)>>,
       <<CHUNKS_FILE, RecLines(TurnQ)>>,
       <<CHUNKS_FILE, RecLines(<<TurnC>> \o TurnP)>>,
       <<OTHER_FILE, RecLines(<<TurnALater>>)>> >>

Queries == { <<"db">>, <<"row">>, <<"auth", "login">> }

(***************************************************************************)
(* Store.rebuild_index and TextIndex.add / add_batch / clear.              *)
(***************************************************************************)
Ids(entries) == {entries[i].id : i \in 1..Len(entries)}

\* mutant: the filter on existing ids is left out
NewChunks_All(chunks, existing) == chunks

\* new_chunks = [c for c in chunks if c.id not in existing]
NewChunks(chunks, existing) == SelectSeq(chunks, LAMBDA c : c.id \notin existing)

\* for i in range(0, len(new_chunks), batch_size): one collection.add per
\* batch; st = [collection, ret, adds], adds lists the batches handed to add
\* mutant: a last batch that is not full is not added
RECURSIVE AddLoop_FullBatchesOnly(_, _, _, _)
AddLoop_FullBatchesOnly(new_chunks, i, batch_size, st) ==
    IF i + batch_size - 1 > Len(new_chunks) THEN st
    ELSE LET batch == SubSeq(new_chunks, i, i + batch_size - 1)
         IN AddLoop_FullBatchesOnly(new_chunks, i + batch_size, batch_size,
                                    [collection |-> st.collection \o batch,
                                     ret |-> st.ret + Len(batch),
                                     adds |-> Append(st.adds, batch)])

RECURSIVE AddLoop(_, _, _, _)
AddLoop(new_chunks, i, batch_size, st) ==
    IF i > Len(new_chunks) THEN st
    ELSE LET batch == SubSeq(new_chunks, i, Min(i + batch_size - 1, Len(new_chunks)))
         IN AddLoop(new_chunks, i + batch_size, batch_size,
                    [collection |-> st.collection \o batch,
                     ret |-> st.ret + Len(batch),
                     adds |-> Append(st.adds, batch)])

DEFAULT_BATCH_SIZE == 5000

\* Store.rebuild_index: [collection after the call, value returned, batches added]
rebuild_index(coll, chunks, batch_size) ==
    IF chunks = <<>> THEN [collection |-> coll, ret |-> 0, adds |-> <<>>]
    ELSE LET existing == Ids(coll)
             new_chunks == NewChunks(chunks, existing)
         IN IF new_chunks = <<>> THEN [collection |-> coll, ret |-> 0, adds |-> <<>>]
            ELSE AddLoop(new_chunks, 1, batch_size,
                         [collection |-> coll, ret |-> 0, adds |-> <<>>])

FtsRow(c) == [chunk_id |-> c.id, text |-> c.text]

\* TextIndex.add_batch: [fts, indexed after the call, value returned, raised].
\* indexed_chunks has chunk_id as PRIMARY KEY: when a new id is twice in the
\* batch, the rows of chunks_fts are all inserted, the ids are inserted up
\* to the second occurrence, and the executemany raises IntegrityError
add_batch(rows, ids, chunks) ==
    LET new_chunks == SelectSeq(chunks, LAMBDA c : c.id \notin ids)
        repeats == {i \in 1..Len(new_chunks) :
                       \E j \in 1..(i - 1) : new_chunks[j].id = new_chunks[i].id}
        inserted == IF repeats = {} THEN Len(new_chunks)
                    ELSE (CHOOSE i \in repeats : \A j \in repeats : i <= j) - 1
    IN [fts |-> rows \o [i \in 1..Len(new_chunks) |-> FtsRow(new_chunks[i])],
        indexed |-> ids \cup Ids(SubSeq(new_chunks, 1, inserted)),
        ret |-> Len(new_chunks),
        raised |-> repeats # {}]

\* TextIndex.add
add(rows, ids, c) ==
    IF c.id \in ids THEN [fts |-> rows, indexed |-> ids]
    ELSE [fts |-> Append(rows, FtsRow(c)), indexed |-> ids \cup {c.id}]

(***************************************************************************)
(* Store.search.                                                           *)
(***************************************************************************)
\* mutant: count() never reports an empty collection
StoreCount_NeverZero(coll) == Max(Len(coll), 1)

\* Store.count / self._collection.count()
StoreCount(coll) == Len(coll)

\* mutant: no over-fetch
FetchN_NoOverfetch(n, dedupe_splits, count) == Min(n, count)

\* fetch_n: over-fetch to account for deduplication and filtering
FetchN(n, dedupe_splits, count) ==
    IF dedupe_splits THEN Min(n * 5, count) ELSE Min(n * 2, count)

Metadata(c) ==
    [text |-> c.text, turn_index |-> c.turn_index, parent_turn_id |-> c.parent_turn_id,
     chunk_index |-> c.chunk_index, total_chunks |-> c.total_chunks]

\* Store._vector_search: the n nearest entries, nearest first
vector_search(coll, query, n) ==
    IF StoreCount(coll) = 0 THEN <<>>
    ELSE LET cands == [i \in 1..Len(coll) |->
                          [chunk_id |-> coll[i].id, distance |-> Distance(query, coll[i].text),
                           metadata |-> Metadata(coll[i]),
                           key |-> Distance(query, coll[i].text)]]
         IN SubSeq(StableSort(cands), 1, Min(n, Len(coll)))

\* TextIndex.search: WHERE MATCH, ORDER BY score, LIMIT n
text_search(rows, query, n) ==
    LET hits == SelectSeq(rows, LAMBDA r : MatchCount(r.text, query) > 0)
        scored == [i \in 1..Len(hits) |->
                      [chunk_id |-> hits[i].chunk_id, text |-> hits[i].text,
                       bm25_score |-> Bm25(hits[i].text, query),
                       key |-> Bm25(hits[i].text, query)]]
    IN SubSeq(StableSort(scored), 1, Min(n, Len(hits)))

SeqMax(s, F(_)) == CHOOSE m \in {F(s[i]) : i \in 1..Len(s)} :
                      \A i \in 1..Len(s) : F(s[i]) <= m
SeqMin(s, F(_)) == CHOOSE m \in {F(s[i]) : i \in 1..Len(s)} :
                      \A i \in 1..Len(s) : F(s[i]) >= m

\* scores after the vector pass: a dict in insertion order, as a sequence of
\* [chunk_id, score, metadata]; origin records which result sets hold the id
VectorScores(vector_results) ==
    IF vector_results = <<>> THEN <<>>
    ELSE LET m == SeqMax(vector_results, LAMBDA r : r.distance)
             max_dist == IF m = 0 THEN 1 ELSE m
         IN [i \in 1..Len(vector_results) |->
                [chunk_id |-> vector_results[i].chunk_id,
                 score |-> Rat(vector_results[i].distance, max_dist),
                 metadata |-> vector_results[i].metadata,
                 origin |-> "vector"]]

\* HYBRID_VECTOR_WEIGHT * old_score + (1 - HYBRID_VECTOR_WEIGHT) * norm_bm25
\* mutant: both weights are one half
Combined_EqualWeights(old_score, norm_bm25) ==
    Rat(5 * old_score[1] * norm_bm25[2] + 5 * norm_bm25[1] * old_score[2],
        10 * old_score[2] * norm_bm25[2])

Combined(old_score, norm_bm25) ==
    Rat(HYBRID_VECTOR_WEIGHT * old_score[1] * norm_bm25[2]
            + (10 - HYBRID_VECTOR_WEIGHT) * norm_bm25[1] * old_score[2],
        10 * old_score[2] * norm_bm25[2])

\* 0.5 + (1 - HYBRID_VECTOR_WEIGHT) * norm_bm25
KeywordOnly(norm_bm25) ==
    Rat(KEYWORD_ONLY_PENALTY * norm_bm25[2] + (10 - HYBRID_VECTOR_WEIGHT) * norm_bm25[1],
        10 * norm_bm25[2])

\* the loop over bm25_results
RECURSIVE MergeLoop(_, _, _, _)
MergeLoop(scores, bm25_results, min_score, score_range) ==
    IF bm25_results = <<>> THEN scores
    ELSE LET result == Head(bm25_results)
             norm_bm25 == Rat(result.bm25_score - min_score, score_range)
             next ==
                 IF \E i \in 1..Len(scores) : scores[i].chunk_id = result.chunk_id
                 THEN [i \in 1..Len(scores) |->
                          IF scores[i].chunk_id = result.chunk_id
                          THEN [scores[i] EXCEPT !.score = Combined(@, norm_bm25),
                                                 !.origin = "both"]
                          ELSE scores[i]]
                 ELSE Append(scores,
                             [chunk_id |-> result.chunk_id,
                              score |-> KeywordOnly(norm_bm25),
                              metadata |-> [text |-> result.text, turn_index |-> 0,
                                            parent_turn_id |-> <<>>, chunk_index |-> 0,
                                            total_chunks |-> 1],
                              origin |-> "keyword"])
         IN MergeLoop(next, Tail(bm25_results), min_score, score_range)

\* if bm25_results: normalise the BM25 scores and merge them into scores
MergeResults(scores, bm25_results) ==
    IF bm25_results = <<>> THEN scores
    ELSE LET min_score == SeqMin(bm25_results, LAMBDA r : r.bm25_score)
             max_score == SeqMax(bm25_results, LAMBDA r : r.bm25_score)
             score_range == IF max_score # min_score THEN max_score - min_score ELSE 1
         IN MergeLoop(scores, bm25_results, min_score, score_range)

\* the merge of the keyword results, with no regard to a failure of the index
MergeBm25(scores, rows, query, fetch_n) ==
    MergeResults(scores, text_search(rows, query, fetch_n))

\* mutant: a failure of the keyword index goes unnoticed
KeywordPhase_IgnoresFailure(scores, rows, query, fetch_n, fts_fails) ==
    MergeBm25(scores, rows, query, fetch_n)

\* the try block of the hybrid branch; TextIndex() or text_index.search raising
\* (fts_fails) leaves scores as the vector pass built them
KeywordPhase(scores, rows, query, fetch_n, fts_fails) ==
    IF fts_fails THEN scores ELSE MergeBm25(scores, rows, query, fetch_n)

\* the scores dict before it is sorted
CombinedScores(coll, rows, query, n, dedupe_splits, hybrid, fts_fails) ==
    LET fetch_n == FetchN(n, dedupe_splits, StoreCount(coll))
        scores == VectorScores(vector_search(coll, query, fetch_n))
    IN IF hybrid THEN KeywordPhase(scores, rows, query, fetch_n, fts_fails) ELSE scores

\* sorted(scores.items(), key=lambda x: x[0][0]): x[0] is the chunk id, so
\* the key is the first character of the id
SortScores(scores) ==
    LET keyed == [i \in 1..Len(scores) |->
                     [item |-> scores[i], key |-> Ord(scores[i].chunk_id[1])]]
        sorted == StableSort(keyed)
    IN [i \in 1..Len(sorted) |-> sorted[i].item]

SearchResult(item) ==
    [text |-> item.metadata.text, distance |-> item.score,
     turn_index |-> item.metadata.turn_index,
     parent_turn_id |-> item.metadata.parent_turn_id,
     chunk_index |-> item.metadata.chunk_index,
     total_chunks |-> item.metadata.total_chunks]

\* mutant: the key of an unsplit result does not depend on len(deduped)
UniqueKey_Same(k) == <<"_", "_", "u", "n", "i", "q", "u", "e", "_">>

\* f"__unique_{len(deduped)}"
UniqueKey(k) == <<"_", "_", "u", "n", "i", "q", "u", "e", "_">> \o Digits(k)

\* mutant: seen_parents is not consulted
RECURSIVE DedupeLoop_NoSeen(_, _, _, _)
DedupeLoop_NoSeen(search_results, seen_parents, deduped, n) ==
    IF search_results = <<>> THEN deduped
    ELSE IF Len(deduped) + 1 >= n THEN Append(deduped, Head(search_results))
    ELSE DedupeLoop_NoSeen(Tail(search_results), seen_parents,
                           Append(deduped, Head(search_results)), n)

\* the dedupe loop: keep the first result of each parent turn, stop at n
RECURSIVE DedupeLoop(_, _, _, _)
DedupeLoop(search_results, seen_parents, deduped, n) ==
    IF search_results = <<>> THEN deduped
    ELSE LET result == Head(search_results)
             key == IF result.parent_turn_id # <<>> THEN result.parent_turn_id
                    ELSE UniqueKey(Len(deduped))
         IN IF key \notin seen_parents
            THEN IF Len(deduped) + 1 >= n THEN Append(deduped, result)
                 ELSE DedupeLoop(Tail(search_results), seen_parents \cup {key},
                                 Append(deduped, result), n)
            ELSE DedupeLoop(Tail(search_results), seen_parents, deduped, n)

\* Store.search
search(coll, rows, query, n, dedupe_splits, hybrid, fts_fails) ==
    IF StoreCount(coll) = 0 THEN <<>>
    ELSE LET scores == CombinedScores(coll, rows, query, n, dedupe_splits, hybrid, fts_fails)
             sorted_results == SortScores(scores)
             search_results == [i \in 1..Len(sorted_results) |-> SearchResult(sorted_results[i])]
         IN IF dedupe_splits THEN DedupeLoop(search_results, {}, <<>>, n)
            ELSE SubSeq(search_results, 1, Min(n, Len(search_results)))

(***************************************************************************)
(* The indexes as a state machine: the log grows, the indexes are built,   *)
(* cleared and searched.  events counts the steps of LogSteps taken.       *)
(***************************************************************************)
\* a sync, or a merge of another machine's shard, brings the next lines
LogAppend ==
    /\ events < Len(LogSteps)
    /\ shards' = [shards EXCEPT ![LogSteps[events + 1][1]] = @ \o LogSteps[events + 1][2]]
    /\ events' = events + 1
    /\ op' = "log"
    /\ UNCHANGED <<sources, processed, ret>>
    /\ UNCHANGED idxVars

\* store.rebuild_index() over load_all_chunks()
RebuildIndex ==
    LET chunks == load_all_chunks(shards).chunks
        r == rebuild_index(collection, chunks, DEFAULT_BATCH_SIZE)
    IN /\ collection' = r.collection
       /\ results' = r.ret
       /\ call' = chunks
       /\ op' = "rebuild_index"
       /\ UNCHANGED <<fts, indexed>>
       /\ UNCHANGED logVars

\* text_index.add_batch over load_all_chunks(), as cli sync calls it
AddBatch ==
    LET chunks == load_all_chunks(shards).chunks
        r == add_batch(fts, indexed, chunks)
    IN /\ fts' = r.fts
       /\ indexed' = r.indexed
       /\ results' = r.ret
       /\ call' = chunks
       /\ op' = "add_batch"
       /\ UNCHANGED collection
       /\ UNCHANGED logVars

Add(c) ==
    LET r == add(fts, indexed, c)
    IN /\ fts' = r.fts
       /\ indexed' = r.indexed
       /\ results' = 0
       /\ call' = <<c>>
       /\ op' = "add"
       /\ UNCHANGED collection
       /\ UNCHANGED logVars

\* Store.clear
\* mutant: the collection is not deleted
StoreClear_KeepsEntries ==
    /\ collection # <<>>
    /\ collection' = collection
    /\ results' = 0
    /\ call' = <<>>
    /\ op' = "store_clear"
    /\ UNCHANGED <<fts, indexed>>
    /\ UNCHANGED logVars

StoreClear ==
    /\ collection # <<>>
    /\ collection' = <<>>
    /\ results' = 0
    /\ call' = <<>>
    /\ op' = "store_clear"
    /\ UNCHANGED <<fts, indexed>>
    /\ UNCHANGED logVars

\* TextIndex.clear
TextClear ==
    /\ fts # <<>>
    /\ fts' = <<>>
    /\ indexed' = {}
    /\ results' = 0
    /\ call' = <<>>
    /\ op' = "text_clear"
    /\ UNCHANGED collection
    /\ UNCHANGED logVars

Search(query, n, dedupe_splits, hybrid, fts_fails) ==
    /\ results' = search(collection, fts, query, n, dedupe_splits, hybrid, fts_fails)
    /\ call' = [query |-> query, n |-> n, dedupe_splits |-> dedupe_splits,
                hybrid |-> hybrid, fts_fails |-> fts_fails]
    /\ op' = "search"
    /\ UNCHANGED <<collection, fts, indexed>>
    /\ UNCHANGED logVars

NextSearch ==
    \/ LogAppend
    \/ RebuildIndex
    \/ AddBatch
    \/ Add(TurnALater)
    \/ StoreClear
    \/ TextClear
    \/ \E query \in Queries, n \in 1..MaxN, dedupe_splits \in BOOLEAN,
          hybrid \in BOOLEAN, fts_fails \in BOOLEAN :
          /\ fts_fails => hybrid
          /\ Search(query, n, dedupe_splits, hybrid, fts_fails)

SpecSearch == Init /\ [][NextSearch]_vars

(***************************************************************************)
(* Properties of the indexes and the search (checked under SpecSearch).    *)
(***************************************************************************)
\* the scores dict of the search that produced this state
LastScores ==
    CombinedScores(collection, fts, call.query, call.n, call.dedupe_splits,
                   call.hybrid, call.fts_fails)

\* C4: Store.search returns at most n results, and the combined scores of
\* the returned results (their distance field) are in non-decreasing order.
C4_AtMostNAscending ==
    op = "search" =>
        /\ Len(results) <= call.n
        /\ \A i \in 1..(Len(results) - 1) :
              RatLeq(results[i].distance, results[i + 1].distance)

\* the first half of C4 on its own: never more than n results
AtMostN == op = "search" => Len(results) <= call.n

\* C5: with dedupe_splits=True no two returned results have the same
\* non-empty parent_turn_id.
C5_NoSharedParent ==
    (op = "search" /\ call.dedupe_splits) =>
        \A i, j \in 1..Len(results) :
            (i # j /\ results[i].parent_turn_id # <<>>)
                => results[i].parent_turn_id # results[j].parent_turn_id

\* a deduplicating search whose candidates held two fragments of one turn and
\* that returned one of them next to another result
C5_Witness ==
    /\ op = "search" /\ call.dedupe_splits
    /\ Len(results) >= 2
    /\ LET scores == LastScores
       IN \E i, j \in 1..Len(scores) :
             /\ i # j
             /\ scores[i].metadata.parent_turn_id # <<>>
             /\ scores[i].metadata.parent_turn_id = scores[j].metadata.parent_turn_id
             /\ \E k \in 1..Len(results) :
                   results[k].parent_turn_id = scores[i].metadata.parent_turn_id

\* both indexes hold the same chunks
SameChunks ==
    /\ Ids(collection) = indexed
    /\ {<<collection[i].id, collection[i].text>> : i \in 1..Len(collection)}
          = {<<fts[i].chunk_id, fts[i].text>> : i \in 1..Len(fts)}

\* the groups of the indexed chunks: an unsplit chunk is its own group, the
\* fragments of one parent turn form one group
Unsplit(coll) == {i \in 1..Len(coll) : coll[i].parent_turn_id = <<>>}
Groups(coll) ==
    Cardinality(Unsplit(coll))
        + Cardinality({coll[i].parent_turn_id : i \in (1..Len(coll)) \ Unsplit(coll)})

\* C6 as stated: when both indexes hold the same chunks, a deduplicating
\* search returns exactly min(n, G) results, and it returns every chunk when
\* n exceeds the number of indexed unsplit chunks.
C6_ExactlyMinNGroups ==
    (op = "search" /\ call.dedupe_splits /\ SameChunks) =>
        /\ Len(results) = Min(call.n, Groups(collection))
        /\ call.n > Cardinality(Unsplit(collection)) => Len(results) = Len(collection)

\* the first sentence of C6 on its own
ExactlyMinNGroupsAlone ==
    (op = "search" /\ call.dedupe_splits /\ SameChunks) =>
        Len(results) = Min(call.n, Groups(collection))

\* C6 amended: when both indexes hold the same chunks and the vector index
\* holds at most 5n entries, a deduplicating search returns exactly min(n, G)
\* results; it returns every chunk when no indexed chunk is a fragment and n
\* is at least the number of indexed chunks.
C6_ExactlyMinNGroupsWithinFetch ==
    (op = "search" /\ call.dedupe_splits /\ SameChunks
        /\ Len(collection) <= 5 * call.n) =>
        /\ Len(results) = Min(call.n, Groups(collection))
        /\ (Unsplit(collection) = 1..Len(collection) /\ call.n >= Len(collection))
              => Len(results) = Len(collection)

\* a deduplicating search over equal indexes that hold fragments, within the
\* over-fetch, that returned one result per group
C6_Witness ==
    /\ op = "search" /\ call.dedupe_splits /\ SameChunks
    /\ Len(collection) <= 5 * call.n
    /\ Groups(collection) < Len(collection)
    /\ Groups(collection) >= 2
    /\ Len(results) = Groups(collection)

\* C7: rebuild_index, add_batch and add add exactly the offered chunks whose
\* id is not yet indexed, report the number added, and leave every indexed
\* entry as it was, also when a chunk with an indexed id and another text is
\* offered.
AddedExactly(before, after, offered, reported) ==
    LET fresh == {i \in 1..Len(offered) : offered[i].id \notin Ids(before)}
    IN /\ Len(after) = Len(before) + Cardinality(fresh)
       /\ SubSeq(after, 1, Len(before)) = before
       /\ {after[i] : i \in (Len(before) + 1)..Len(after)} = {offered[i] : i \in fresh}
       /\ reported = Cardinality(fresh)

FtsAsChunks(rows) == [i \in 1..Len(rows) |-> [id |-> rows[i].chunk_id, text |-> rows[i].text]]
OfferedAsRows(offered) == [i \in 1..Len(offered) |-> [id |-> offered[i].id, text |-> offered[i].text]]

C7_AddOnlyNew ==
    [][/\ op' = "rebuild_index" =>
            /\ AddedExactly(collection, collection', call', results')
            /\ UNCHANGED <<fts, indexed>>
       /\ op' = "add_batch" =>
            /\ AddedExactly(FtsAsChunks(fts), FtsAsChunks(fts'), OfferedAsRows(call'), results')
            /\ indexed' = Ids(FtsAsChunks(fts'))
            /\ UNCHANGED collection
       /\ op' = "add" =>
            /\ AddedExactly(FtsAsChunks(fts), FtsAsChunks(fts'), OfferedAsRows(call'),
                            Len(fts') - Len(fts))
            /\ indexed' = Ids(FtsAsChunks(fts'))
            /\ UNCHANGED collection]_vars

\* a rebuild that added chunks and was offered, for an id it holds, another
\* text than the one it keeps
C7_Witness ==
    /\ op = "rebuild_index"
    /\ results > 0
    /\ \E i \in 1..Len(call), j \in 1..Len(collection) :
          call[i].id = collection[j].id /\ call[i].text # collection[j].text

\* C8: whenever the vector index holds no entry, search returns the empty
\* list, whatever the query, n, dedupe_splits, hybrid and the keyword index.
C8_EmptyVectorIndex ==
    (op = "search" /\ collection = <<>>) => results = <<>>

\* a hybrid search on an empty collection while the keyword index matches the query
C8_Witness ==
    /\ op = "search" /\ collection = <<>>
    /\ call.hybrid /\ ~call.fts_fails
    /\ \E i \in 1..Len(fts) : MatchCount(fts[i].text, call.query) > 0
    /\ results = <<>>

\* C9: a hybrid search whose keyword index fails returns exactly the list of
\* the vector-only search for the same query, n and dedupe_splits.
C9_KeywordFailureFallsBack ==
    (op = "search" /\ call.hybrid /\ call.fts_fails) =>
        results = search(collection, fts, call.query, call.n, call.dedupe_splits,
                         FALSE, FALSE)

\* a failed hybrid search that returned results, where the keyword index
\* would have changed the list
C9_Witness ==
    /\ op = "search" /\ call.hybrid /\ call.fts_fails
    /\ results # <<>>
    /\ results # search(collection, fts, call.query, call.n, call.dedupe_splits,
                        TRUE, FALSE)

\* C10: in a hybrid search an id that only the keyword results hold never
\* gets a combined score lower than an id of the vector results.
C10_KeywordOnlyNeverAhead ==
    (op = "search" /\ call.hybrid /\ collection # <<>>) =>
        LET scores == LastScores
        IN \A i, j \in 1..Len(scores) :
              (scores[i].origin = "keyword" /\ scores[j].origin # "keyword")
                  => RatLeq(scores[j].score, scores[i].score)

(***************************************************************************)
(* The merge of Store.search over candidate lists of all shapes: the       *)
(* vector results carry distances, the keyword results BM25 scores.        *)
(***************************************************************************)
MaxCand == 3
MaxDist == 3

\* the chunks that the candidates are drawn from
Candidates == <<TurnA, TurnC, TurnQ[1]>>

\* the orders of k distinct candidates
Picks(k) ==
    {p \in [1..k -> 1..Len(Candidates)] : \A i, j \in 1..k : i # j => p[i] # p[j]}

\* what Store._vector_search can return: distinct ids, nearest first
VectorLists ==
    UNION {{[i \in 1..k |-> [chunk_id |-> Candidates[p[i]].id, distance |-> dist[i],
                             metadata |-> Metadata(Candidates[p[i]]), key |-> dist[i]]] :
               p \in Picks(k),
               dist \in {f \in [1..k -> 0..MaxDist] : \A i \in 1..k - 1 : f[i] <= f[i + 1]}} :
           k \in 0..MaxCand}

\* what TextIndex.search can return: distinct ids, best (most negative) first
KeywordLists ==
    UNION {{[i \in 1..k |-> [chunk_id |-> Candidates[p[i]].id,
                             text |-> Candidates[p[i]].text,
                             bm25_score |-> 0 - sc[i], key |-> 0 - sc[i]]] :
               p \in Picks(k),
               sc \in {f \in [1..k -> 1..MaxDist] : \A i \in 1..k - 1 : f[i] >= f[i + 1]}} :
           k \in 0..MaxCand}

\* lines 165-210 of Store.search on given candidate lists
HybridMerge(vector_results, bm25_results) ==
    /\ op = "init"
    /\ results' = MergeResults(VectorScores(vector_results), bm25_results)
    /\ call' = [vector_results |-> vector_results, bm25_results |-> bm25_results]
    /\ op' = "merge"
    /\ UNCHANGED <<collection, fts, indexed>>
    /\ UNCHANGED logVars

NextMerge ==
    \E vector_results \in VectorLists, bm25_results \in KeywordLists :
        HybridMerge(vector_results, bm25_results)

SpecMerge == Init /\ [][NextMerge]_vars

\* one id heads both candidate lists, and no two candidates of a list tie
StrictlyRanked(s, F(_)) == \A i, j \in 1..Len(s) : i # j => F(s[i]) # F(s[j])
TopInBoth(vr, kr) ==
    /\ vr # <<>> /\ kr # <<>> /\ vr[1].chunk_id = kr[1].chunk_id
    /\ StrictlyRanked(vr, LAMBDA r : r.distance)
    /\ StrictlyRanked(kr, LAMBDA r : r.bm25_score)

\* C11: in the hybrid merge, the id ranked first in both the vector and the
\* keyword candidate list gets a combined score less than or equal to the
\* score of every id that only one of the two lists holds (at a worse rank).
C11_TopInBothFirst ==
    (op = "merge" /\ TopInBoth(call.vector_results, call.bm25_results)) =>
        \A i, j \in 1..Len(results) :
            (results[i].chunk_id = call.vector_results[1].chunk_id
                 /\ results[j].origin # "both")
                => RatLeq(results[i].score, results[j].score)

(***************************************************************************)
(* Searches that match nothing (checked under SpecSearch).                 *)
(***************************************************************************)
\* no indexed chunk, of the collection or of the keyword index, holds a term
\* of the query
MatchesNothing(query) ==
    /\ \A i \in 1..Len(collection) : MatchCount(collection[i].text, query) = 0
    /\ \A i \in 1..Len(fts) : MatchCount(fts[i].text, query) = 0

\* C12: on a non-empty index, a search for a query that matches none of the
\* indexed chunks returns zero results.
C12_NoMatchNoResults ==
    (op = "search" /\ collection # <<>> /\ MatchesNothing(call.query)) =>
        results = <<>>

(***************************************************************************)
(* Fragments in the logical chunk set (checked under Spec).                *)
(***************************************************************************)
\* the chunks of load_all_chunks that are fragments of the turn parent
FragmentsOf(chunks, parent) ==
    {i \in 1..Len(chunks) : chunks[i].parent_turn_id = parent}

\* C14: after any sequence of sync_chunks runs over growing source files, the
\* chunks of load_all_chunks that share a non-empty parent_turn_id all carry
\* the same total_chunks, and their chunk_index values are exactly
\* 0..total_chunks-1 with no gap and no repeat.
C14_FragmentsComplete ==
    LET r == load_all_chunks(shards)
    IN ~r.raised =>
          \A i \in 1..Len(r.chunks) :
              r.chunks[i].parent_turn_id # <<>> =>
                  LET group == FragmentsOf(r.chunks, r.chunks[i].parent_turn_id)
                      total == r.chunks[i].total_chunks
                  IN /\ \A j \in group : r.chunks[j].total_chunks = total
                     /\ {r.chunks[j].chunk_index : j \in group} = 0..(total - 1)
                     /\ Cardinality(group) = total

\* C15: after any sequence of sync_chunks runs over growing source files, the
\* logical chunk set never holds both the unsplit chunk with id a and
\* fragments whose parent_turn_id is a.
C15_NeverUnsplitAndFragments ==
    LET r == load_all_chunks(shards)
    IN ~r.raised =>
          \A i, j \in 1..Len(r.chunks) :
              ~(r.chunks[i].parent_turn_id = <<>>
                  /\ r.chunks[j].parent_turn_id = r.chunks[i].id)

(***************************************************************************)
(* parser.py and chunker.py: chunk_conversation over a whole transcript,   *)
(* message by message.  A raw content can begin and end with whitespace    *)
(* (empty words at the ends of a paragraph, blank paragraphs).             *)
(***************************************************************************)
MaxMsgs == 5

UpperChars == <<"A", "M", "P", "R", "U", "W">>
LowerChars == <<"a", "m", "p", "r", "u", "w">>
\* str.lower(), character by character
LowerChar(ch) ==
    IF \E i \in 1..Len(UpperChars) : UpperChars[i] = ch
    THEN LowerChars[CHOOSE i \in 1..Len(UpperChars) : UpperChars[i] = ch]
    ELSE ch
Lower(content) ==
    [i \in 1..Len(content) |->
        [words |-> [j \in 1..Len(content[i].words) |->
                       LET w == content[i].words[j]
                       IN Word([k \in 1..Len(w.t) |-> LowerChar(w.t[k])], w.fill)],
         blank |-> content[i].blank]]

EmptyWord(w) == WordLen(w) = 0
WhiteSpace(p) == \A j \in 1..Len(p.words) : EmptyWord(p.words[j])

\* str.strip(): the whitespace at both ends goes (blank paragraphs, then the
\* empty words of the first and the last paragraph), the inner one stays
Strip(content) ==
    LET keep == {i \in 1..Len(content) : ~WhiteSpace(content[i])}
    IN IF keep = {} THEN <<>>
       ELSE LET ps == SubSeq(content, CHOOSE i \in keep : \A j \in keep : i <= j,
                                      CHOOSE i \in keep : \A j \in keep : i >= j)
            IN [i \in 1..Len(ps) |->
                   LET ws == ps[i].words
                       solid == {j \in 1..Len(ws) : ~EmptyWord(ws[j])}
                   IN [words |-> SubSeq(ws,
                                        IF i = 1
                                        THEN CHOOSE j \in solid : \A k \in solid : j <= k
                                        ELSE 1,
                                        IF i = Len(ps)
                                        THEN CHOOSE j \in solid : \A k \in solid : j >= k
                                        ELSE Len(ws)),
                       blank |-> ps[i].blank]]

\* EXCLUDED_USER_MESSAGES = {"warmup"}
EXCLUDED_USER_MESSAGES == { <<Para(<<Word(<<"w", "a", "r", "m", "u", "p">>, 0)>>)>> }

\* mutant: the content is not lower-cased
is_excluded_message_NoLower(user_content) ==
    Strip(user_content) \in EXCLUDED_USER_MESSAGES

is_excluded_message(user_content) ==
    Lower(Strip(user_content)) \in EXCLUDED_USER_MESSAGES

\* parse_conversation: the messages of the user and assistant lines that
\* have text, content stripped
parse_conversation(lines) ==
    SelectSeq([i \in 1..Len(lines) |-> [lines[i] EXCEPT !.content = Strip(@)]],
              LAMBDA m : m.content # <<>>)

\* mutant: user_msg is not reset after an exchange
RECURSIVE PairLoop_NoReset(_, _, _)
PairLoop_NoReset(messages, exchanges, user_msg) ==
    IF messages = <<>> THEN exchanges
    ELSE LET msg == Head(messages)
         IN IF msg.role = "user"
            THEN PairLoop_NoReset(Tail(messages), exchanges, <<msg>>)
            ELSE IF msg.role = "assistant" /\ user_msg # <<>>
            THEN PairLoop_NoReset(Tail(messages),
                                  IF ~is_excluded_message(user_msg[1].content)
                                  THEN Append(exchanges, [user |-> user_msg[1], assistant |-> msg])
                                  ELSE exchanges,
                                  user_msg)
            ELSE PairLoop_NoReset(Tail(messages), exchanges, user_msg)

\* the first pass of chunk_conversation; user_msg = None is <<>>
RECURSIVE PairLoop(_, _, _)
PairLoop(messages, exchanges, user_msg) ==
    IF messages = <<>> THEN exchanges
    ELSE LET msg == Head(messages)
         IN IF msg.role = "user"
            THEN PairLoop(Tail(messages), exchanges, <<msg>>)
            ELSE IF msg.role = "assistant" /\ user_msg # <<>>
            THEN PairLoop(Tail(messages),
                          IF ~is_excluded_message(user_msg[1].content)
                          THEN Append(exchanges, [user |-> user_msg[1], assistant |-> msg])
                          ELSE exchanges,
                          <<>>)
            ELSE PairLoop(Tail(messages), exchanges, user_msg)

\* the exchanges of a transcript, and chunk_conversation(filepath)
Exchanges(lines) == PairLoop(parse_conversation(lines), <<>>, <<>>)
ChunkTranscript(lines) == chunk_conversation(Exchanges(lines))

\* the contents that the messages of a transcript are drawn from
Hi == <<Para(<<Word(<<"h", "i">>, 0)>>)>>
\* " WarmUp "
WarmupRaw ==
    <<Para(<<Word(<<>>, 0), Word(<<"W", "a", "r", "m", "U", "p">>, 0), Word(<<>>, 0)>>)>>
\* "warmup now"
WarmupNow ==
    <<Para(<<Word(<<"w", "a", "r", "m", "u", "p">>, 0), Word(<<"n", "o", "w">>, 0)>>)>>
\* a paragraph, a long run of spaces, and a paragraph with an oversize word
Structured ==
    <<Para(<<Word(<<>>, 600)>>), Blank(1800),
      Para(<<Word(<<>>, 700), Word(<<>>, 3000), Word(<<>>, 200)>>)>>
UserContents == {Hi, WarmupRaw, WarmupNow, Plain(700)}
AssistantContents == {Plain(50), Plain(700), Structured}

\* the session writes one more message to the transcript, and the transcript
\* is chunked
WriteMessage(role, content) ==
    /\ op \in {"init", "chunk"}
    /\ Len(call) < MaxMsgs
    /\ call' = Append(call, Message(role, <<"m">> \o Digits(Len(call) + 1), content))
    /\ results' = ChunkTranscript(call')
    /\ op' = "chunk"
    /\ UNCHANGED <<collection, fts, indexed>>
    /\ UNCHANGED logVars

NextChunk ==
    \/ \E content \in UserContents : WriteMessage("user", content)
    \/ \E content \in AssistantContents : WriteMessage("assistant", content)

SpecChunk == Init /\ [][NextChunk]_vars

(***************************************************************************)
(* Properties of chunk_conversation (checked under SpecChunk).             *)
(***************************************************************************)
\* the assistant uuid that a chunk was made for
BaseId(c) == IF c.parent_turn_id # <<>> THEN c.parent_turn_id ELSE c.id

\* C13: every chunk yielded by chunk_conversation, fragments included, has
\* len(text) <= MAX_CHUNK_CHARS + 300.
C13_ChunkTextBounded ==
    op = "chunk" =>
        \A i \in 1..Len(results) : TextLen(results[i].text) <= MAX_CHUNK_CHARS + 300

\* C16: an exchange whose own text is at most MAX_CHUNK_CHARS long is emitted
\* as exactly one chunk with empty parent_turn_id and total_chunks = 1, also
\* when its context would exceed MAX_CHUNK_CHARS.
C16_FittingExchangeNotSplit ==
    op = "chunk" =>
        LET exchanges == Exchanges(call)
        IN \A i \in 1..Len(exchanges) :
              AtomsLen(ExchangeAtoms(exchanges[i])) <= MAX_CHUNK_CHARS =>
                  LET mine == {j \in 1..Len(results) : results[j].turn_index = i - 1}
                  IN /\ Cardinality(mine) = 1
                     /\ \A j \in mine : /\ results[j].parent_turn_id = <<>>
                                        /\ results[j].total_chunks = 1

\* the positions of the user messages that an assistant message directly
\* follows, excluded messages left out
Pairs(messages) ==
    {i \in 1..(Len(messages) - 1) :
        /\ messages[i].role = "user" /\ messages[i + 1].role = "assistant"
        /\ ~is_excluded_message(messages[i].content)}

\* C17: chunk_conversation pairs each user message with the assistant message
\* that follows it, in document order; an assistant message with no
\* unconsumed user message before it is ignored, no message is in two
\* exchanges, and a trailing user message forms no exchange.
C17_PairsInDocumentOrder ==
    op = "chunk" =>
        LET messages == parse_conversation(call)
            pairs == Pairs(messages)
            exchanges == Exchanges(call)
        IN /\ Len(exchanges) = Cardinality(pairs)
           /\ \A k \in 1..Len(exchanges) :
                 \E i \in pairs :
                    /\ exchanges[k].user = messages[i]
                    /\ exchanges[k].assistant = messages[i + 1]
                    /\ k = Cardinality({j \in pairs : j <= i})
           /\ \A k, l \in 1..Len(exchanges) :
                 k # l => /\ exchanges[k].user # exchanges[l].user
                          /\ exchanges[k].assistant # exchanges[l].assistant
           /\ \A j \in 1..Len(results) :
                 /\ results[j].turn_index \in 0..(Len(exchanges) - 1)
                 /\ BaseId(results[j]) = exchanges[results[j].turn_index + 1].assistant.uuid
           /\ \A k \in 1..Len(exchanges) :
                 \E j \in 1..Len(results) : results[j].turn_index = k - 1

\* the transcript [u1, a1, u2, a2, u3] gave the two exchanges u1/a1 and u2/a2
C17_Witness ==
    /\ op = "chunk"
    /\ [i \in 1..Len(call) |-> call[i].role]
           = <<"user", "assistant", "user", "assistant", "user">>
    /\ {BaseId(results[j]) : j \in 1..Len(results)} = {call[2].uuid, call[4].uuid}

\* C18: a user message whose trimmed, lower-cased text is "warmup" produces
\* no exchange and no chunk, and the assistant reply that follows it is
\* dropped too: it is the reply of no chunk and part of no chunk's text.
C18_WarmupDropped ==
    op = "chunk" =>
        \A i \in 1..(Len(call) - 1) :
            (call[i].role = "user" /\ call[i].content = WarmupRaw
                 /\ call[i + 1].role = "assistant") =>
                \A j \in 1..Len(results) :
                    /\ BaseId(results[j]) # call[i + 1].uuid
                    /\ \A a \in 1..Len(results[j].text.atoms) :
                          results[j].text.atoms[a].u # call[i + 1].uuid

\* " WarmUp " and its reply, then an exchange that is chunked
C18_Witness ==
    /\ op = "chunk" /\ Len(call) = 4
    /\ call[1].role = "user" /\ call[1].content = WarmupRaw
    /\ call[2].role = "assistant"
    /\ call[3].role = "user" /\ call[3].content = WarmupNow
    /\ call[4].role = "assistant"
    /\ {BaseId(results[j]) : j \in 1..Len(results)} = {call[4].uuid}

(***************************************************************************)
(* Failures while the log is read and written (checked under Spec).        *)
(***************************************************************************)
\* C19: if reading or chunking one source file fails during sync_chunks, the
\* run is not aborted: the remaining source files are processed, their new
\* chunks are appended, and the markers of the processed files are persisted.
C19_FileFailureIsolated ==
    [][(/\ op' = "sync"
        /\ ~load_existing_chunk_ids(shards).raised
        /\ \A k \in FileKeys : processed[k] # NotADict
        /\ \E p \in Range(SourcePaths) : sources[p].broken)
        => /\ ret' # Raised
           /\ \A p \in Range(SourcePaths) :
                 ~sources[p].broken =>
                     /\ processed'[FileKey(p)] # NoMarker
                     /\ \A c \in Range(chunk_conversation(sources[p].content)) :
                           c.id \in LogIds(shards')]_vars

\* C20: load_all_chunks and load_existing_chunk_ids never abort on a malformed
\* shard line (no JSON, JSON that is no object, an object that lacks a
\* required field): the line is skipped, and every well-formed record of
\* every shard is loaded.
C20_MalformedLinesSkipped ==
    LET all == load_all_chunks(shards)
        existing == load_existing_chunk_ids(shards)
        wf == WellFormed(shards)
        wf_ids == {wf[i].chunk.id : i \in 1..Len(wf)}
    IN /\ ~all.raised
       /\ ~existing.raised
       /\ {all.chunks[i].id : i \in 1..Len(all.chunks)} = wf_ids
       /\ existing.ids = wf_ids

(***************************************************************************)
(* The processed-marker table (checked under Spec).                        *)
(***************************************************************************)
\* processed.json is missing or unparseable (load_processed returns {}), or
\* holds JSON that is no mapping
NoMarkerTable(proc) ==
    \/ proc = [k \in FileKeys |-> NoMarker]
    \/ proc = [k \in FileKeys |-> NotADict]

\* nothing but the marker table stands in the way of a run
Readable == /\ ~load_existing_chunk_ids(shards).raised
            /\ \A p \in Range(SourcePaths) : ~sources[p].broken

\* C21: sync_chunks treats a processed-marker file that is missing or corrupt
\* (unparseable, or valid JSON that is no mapping) as an empty table: the run
\* raises no error, rescans every source file and writes a valid marker table.
C21_CorruptMarkersAsEmpty ==
    [][(op' = "sync" /\ NoMarkerTable(processed) /\ Readable)
        => /\ ret' # Raised
           /\ \A k \in FileKeys : processed'[k] \notin {NoMarker, NotADict}
           /\ ProducedIds \subseteq LogIds(shards')]_vars

FailureSkipped(outcome, r) ==
    LET done == {p \in Summarizable : outcome[p] = "ok"}
        failing == {p \in Summarizable : outcome[p] \in {"nonzero", "timeout"}}
    IN /\ ~r.raised
       /\ r.generated = Cardinality(done)
       /\ r.failed >= Cardinality(failing)
       /\ Len(r.appended) = Cardinality(done)
       /\ \A i \in 1..Len(r.appended) :
             \E p \in done : r.appended[i] = RecLine(SummaryChunk(p, SummaryText))
       /\ \A p \in done :
             \E i \in 1..Len(r.appended) : r.appended[i] = RecLine(SummaryChunk(p, SummaryText))

\* C25: when the summarizer times out or exits non-zero for a conversation,
\* sync_summaries appends no summary record for it, counts it as failed and
\* goes on to the remaining conversations; nothing is raised.  From every
\* state of the log and whatever ollama does, the run returns (generated,
\* failed) and appends exactly the summaries of the conversations that ollama
\* summarized (that the lines already in the log stay is C22).
C25_SummarizerFailureSkipped ==
    \A outcome \in [Summarizable -> Outcomes] :
        FailureSkipped(outcome, sync_summaries(sources, shards, outcome))

\* the run failed for the first conversation (s1, still without a summary),
\* went on and summarized a later one (s2); turn chunks were in the log
C25_Witness ==
    /\ op = "summarize" /\ ret = <<1, 1>>
    /\ Len(sources[SourcePaths[1]].content) >= 2
    /\ SummaryChunk(SourcePaths[1], SummaryText).id \notin LogIds(shards)
    /\ SummaryChunk(SourcePaths[2], SummaryText).id \in LogIds(shards)
    /\ \E i \in 1..Len(shards[CHUNKS_FILE]) : shards[CHUNKS_FILE][i].chunk.chunk_type = "turn"

(***************************************************************************)
(* Rebuilding the indexes from the log (checked under SpecSearch).         *)
(***************************************************************************)
\* the entries hold exactly the ids of the logical chunk set, once each,
\* with the text of the last occurrence of the id in the log
HoldsTheLog(ids, texts, count) ==
    LET wf == WellFormed(shards)
        logical == load_all_chunks(shards).chunks
    IN /\ count = Len(logical)
       /\ Len(ids) = count
       /\ Range(ids) = {wf[i].chunk.id : i \in 1..Len(wf)}
       /\ Range(ids) = Ids(logical)
       /\ \A i \in 1..Len(ids) : texts[i] = LastOccurrence(wf, ids[i]).text

\* C23: clear() followed by a rebuild from the log leaves the vector index,
\* and likewise the keyword index, holding exactly the ids of
\* load_all_chunks, each with the text of the last physical occurrence of
\* the id, and count() equal to the number of logical chunks.
C23_ClearThenRebuild ==
    [][/\ (op = "store_clear" /\ op' = "rebuild_index")
           => HoldsTheLog([i \in 1..Len(collection') |-> collection'[i].id],
                          [i \in 1..Len(collection') |-> collection'[i].text],
                          StoreCount(collection'))
       /\ (op = "text_clear" /\ op' = "add_batch")
           => HoldsTheLog([i \in 1..Len(fts') |-> fts'[i].chunk_id],
                          [i \in 1..Len(fts') |-> fts'[i].text],
                          Cardinality(indexed'))]_vars

\* the whole log is there, with the id a1 twice; the vector index was filled
\* from nothing by the last call and holds the later text of a1, the keyword
\* index still holds the earlier one
C23_Witness ==
    /\ op = "rebuild_index" /\ events = Len(LogSteps)
    /\ results = Len(collection) /\ results > 0
    /\ \E i \in 1..Len(collection) : collection[i] = TurnALater
    /\ \E i \in 1..Len(fts) : fts[i] = FtsRow(TurnA)

(***************************************************************************)
(* The record format of the log (checked under Spec).                      *)
(***************************************************************************)
\* the JSON object of the last well-formed line that carries the id
LastData(sh, id) ==
    LET wf == WellFormed(sh)
    IN wf[CHOOSE i \in 1..Len(wf) :
             /\ wf[i].chunk.id = id
             /\ \A j \in (i + 1)..Len(wf) : wf[j].chunk.id # id].chunk

\* every loaded chunk has the fields of its record, and for the fields that
\* the record lacks chunk_type "turn", turn_index 0, parent_turn_id "",
\* chunk_index 0, total_chunks 1 and empty tool metadata
LoadedWithDefaults(sh) ==
    LET r == load_all_chunks(sh)
    IN ~r.raised =>
          \A i \in 1..Len(r.chunks) :
              LET c == r.chunks[i]
                  data == LastData(sh, c.id)
              IN /\ DOMAIN c = {"id", "text", "timestamp", "session_id", "chunk_type",
                                "turn_index", "parent_turn_id", "chunk_index",
                                "total_chunks", "tools_used", "files_touched",
                                "commands_run"}
                 /\ \A f \in DOMAIN data : c[f] = data[f]
                 /\ "chunk_type" \notin DOMAIN data => c.chunk_type = "turn"
                 /\ "turn_index" \notin DOMAIN data => c.turn_index = 0
                 /\ "parent_turn_id" \notin DOMAIN data => c.parent_turn_id = <<>>
                 /\ "chunk_index" \notin DOMAIN data => c.chunk_index = 0
                 /\ "total_chunks" \notin DOMAIN data => c.total_chunks = 1
                 /\ "tools_used" \notin DOMAIN data => c.tools_used = ""
                 /\ "files_touched" \notin DOMAIN data => c.files_touched = ""
                 /\ "commands_run" \notin DOMAIN data => c.commands_run = ""

\* the chunks that chunk_conversation produces from the current source files
Produced ==
    UNION {Range(chunk_conversation(sources[p].content)) : p \in Range(SourcePaths)}

\* C24: records that lack fields other than id, text, timestamp and
\* session_id are loaded with the defaults of these fields; and a chunk that
\* sync_chunks wrote is loaded back with every field as chunk_conversation
\* produced it.
C24_DefaultsAndRoundTrip ==
    [][/\ LoadedWithDefaults(shards')
       /\ (op' = "sync" /\ ~load_all_chunks(shards').raised)
           => \A i \in 1..Len(Appended) :
                 \E c \in Produced :
                    /\ c.id = Appended[i].chunk.id
                    /\ \E j \in 1..Len(load_all_chunks(shards').chunks) :
                          load_all_chunks(shards').chunks[j] = c]_vars

\* a run wrote the fragments of a split exchange, which are loaded back, next
\* to a record of the old format in the legacy file, loaded with defaults
C24_Witness ==
    /\ op = "sync" /\ ret # Raised
    /\ \E i \in 1..Len(shards[LEGACY_FILE]) :
          DOMAIN shards[LEGACY_FILE][i].chunk = {"id", "text", "timestamp", "session_id"}
    /\ LET r == load_all_chunks(shards)
       IN /\ ~r.raised
          /\ \E i \in 1..Len(r.chunks) :
                r.chunks[i].tools_used = "" /\ r.chunks[i].total_chunks = 1
          /\ \E i \in 1..Len(r.chunks) :
                /\ r.chunks[i].total_chunks > 1 /\ r.chunks[i].chunk_index > 0
                /\ r.chunks[i].tools_used = "Read"
                /\ \E j \in 1..Len(shards[CHUNKS_FILE]) :
                      shards[CHUNKS_FILE][j].chunk.id = r.chunks[i].id

(***************************************************************************)
(* text_index.py: TextIndex._prepare_query, over queries typed token by    *)
(* token (SpecQuery).  A query is a sequence of characters.                *)
(***************************************************************************)
MaxTokens == 5

QueryUpper == <<"A", "D", "N", "O", "R", "T">>
QueryLower == <<"a", "d", "n", "o", "r", "t">>
\* str.upper(), character by character
UpperChar(ch) ==
    IF \E i \in 1..Len(QueryLower) : QueryLower[i] = ch
    THEN QueryUpper[CHOOSE i \in 1..Len(QueryLower) : QueryLower[i] = ch]
    ELSE ch
Upper(query) == [i \in 1..Len(query) |-> UpperChar(query[i])]

\* sub in s
Contains(s, sub) ==
    \E i \in 1..(Len(s) - Len(sub) + 1) : SubSeq(s, i, i + Len(sub) - 1) = sub

\* str.split(): the maximal runs of characters that are no whitespace
RECURSIVE SplitWords(_, _, _)
SplitWords(s, word, words) ==
    IF s = <<>> THEN (IF word = <<>> THEN words ELSE Append(words, word))
    ELSE IF Head(s) \in {" ", "\t"}
    THEN SplitWords(Tail(s), <<>>, IF word = <<>> THEN words ELSE Append(words, word))
    ELSE SplitWords(Tail(s), Append(word, Head(s)), words)

\* " OR ".join(terms)
RECURSIVE JoinOr(_)
JoinOr(terms) ==
    IF terms = <<>> THEN <<>>
    ELSE IF Len(terms) = 1 THEN terms[1]
    ELSE terms[1] \o <<" ", "O", "R", " ">> \o JoinOr(Tail(terms))

FTS5_OPERATORS ==
    { <<" ", "A", "N", "D", " ">>, <<" ", "O", "R", " ">>, <<" ", "N", "O", "T", " ">>, <<"\"">> }

\* mutant: the operators are looked for in the query as it is typed
prepare_query_CaseSensitive(query) ==
    IF \E operator \in FTS5_OPERATORS : Contains(query, operator)
    THEN query
    ELSE LET words == SplitWords(query, <<>>, <<>>)
         IN IF words = <<>> THEN query
            ELSE JoinOr([i \in 1..Len(words) |-> Append(words[i], "*")])

\* TextIndex._prepare_query
prepare_query(query) ==
    IF \E operator \in FTS5_OPERATORS : Contains(Upper(query), operator)
    THEN query
    ELSE LET words == SplitWords(query, <<>>, <<>>)
         IN IF words = <<>> THEN query
            ELSE JoinOr([i \in 1..Len(words) |-> Append(words[i], "*")])

\* the tokens that are typed: words and whitespace
QueryWords ==
    { <<"a", "u", "t", "h">>, <<"b", "u", "g">>, <<"a", "n", "d">>, <<"A", "N", "D">>,
      <<"o", "r">>, <<"N", "O", "T">>, <<"\"", "h", "i", "\"">> }
QuerySpaces == { <<" ">>, <<"\t">> }

\* one more token is typed and the query is prepared: call holds the tokens,
\* results the prepared query.  A word follows whitespace or starts the query.
TypeToken(token) ==
    /\ op \in {"init", "query"}
    /\ Len(call) < MaxTokens
    /\ IF token \in QueryWords /\ call # <<>> THEN call[Len(call)] \in QuerySpaces ELSE TRUE
    /\ call' = Append(call, token)
    /\ results' = prepare_query(Concat(call'))
    /\ op' = "query"
    /\ UNCHANGED <<collection, fts, indexed>>
    /\ UNCHANGED logVars

NextQuery ==
    \/ \E token \in QueryWords : TypeToken(token)
    \/ \E token \in QuerySpaces : TypeToken(token)

SpecQuery == Init /\ [][NextQuery]_vars

\* the query holds explicit syntax: a double quote, or one of the operators
\* AND, OR, NOT as a term
ExplicitSyntax(query) ==
    \/ Contains(query, <<"\"">>)
    \/ \E term \in Range(SplitWords(query, <<>>, <<>>)) :
          term \in { <<"A", "N", "D">>, <<"O", "R">>, <<"N", "O", "T">> }

\* C26: _prepare_query returns the query unchanged exactly when it holds
\* explicit boolean or quote syntax; every other non-empty query becomes its
\* whitespace-delimited terms, each followed by "*", joined by " OR ".
C26_PrepareQuery ==
    op = "query" =>
        LET query == Concat(call)
            terms == SplitWords(query, <<>>, <<>>)
        IN /\ (results = query) <=> ExplicitSyntax(query)
           /\ ~ExplicitSyntax(query)
                 => results = JoinOr([i \in 1..Len(terms) |-> Append(terms[i], "*")])

(***************************************************************************)
(* Which files a run parses, and their markers (checked under Spec).       *)
(***************************************************************************)
\* of the files in `paths`: those without a marker equal to their mtime when
\* the run starts are the ones parsed, and their markers are the mtimes
\* when the run has ended
MarkersFollow(paths, r) ==
    /\ \A p \in paths :
          (p \in Range(r.parsed)) <=> (processed[FileKey(p)] # sources[p].mtime)
    /\ \A p \in paths \cap Range(r.parsed) : processed'[FileKey(p)] = sources[p].mtime

\* C27: sync_chunks re-parses a source file if and only if it has no marker
\* or its modification time differs from its marker; after the run the
\* marker of every re-parsed file is its modification time, new chunks or
\* not; the table is written once, after all files: a run that raises
\* leaves it as it was.
C27_ReparseIffMarkerDiffers ==
    [][op' = "sync"
        => /\ ret' # Raised
              => MarkersFollow(Range(SourcePaths), sync_chunks(sources, processed, shards))
           /\ ret' = Raised => processed' = processed]_vars

\* what remains of C27 for the files whose name no other source file has
ReparseIffMarkerDiffersUniqueNames ==
    [][op' = "sync"
        => /\ ret' # Raised
              => MarkersFollow({p \in Range(SourcePaths) :
                                   \A q \in Range(SourcePaths) : FileKey(q) = FileKey(p) => q = p},
                               sync_chunks(sources, processed, shards))
           /\ ret' = Raised => processed' = processed]_vars

(***************************************************************************)
(* The scores of the hybrid merge (checked under SpecMerge).               *)
(***************************************************************************)
\* fractions <<p, q>> with q > 0
RatEq(x, y) == x[2] > 0 /\ y[2] > 0 /\ x[1] * y[2] = y[1] * x[2]
InUnit(x) == x[2] > 0 /\ 0 <= x[1] /\ x[1] <= x[2]

\* distance / (maximum distance), and 0 where every distance is 0
NormVector(vr, id) ==
    LET d == vr[CHOOSE i \in 1..Len(vr) : vr[i].chunk_id = id].distance
        m == SeqMax(vr, LAMBDA r : r.distance)
    IN IF m = 0 THEN <<0, 1>> ELSE <<d, m>>

\* (score - min) / (max - min), and 0 where every score is the same
NormBm25(kr, id) ==
    LET sc == kr[CHOOSE i \in 1..Len(kr) : kr[i].chunk_id = id].bm25_score
        lo == SeqMin(kr, LAMBDA r : r.bm25_score)
        hi == SeqMax(kr, LAMBDA r : r.bm25_score)
    IN IF hi = lo THEN <<0, 1>> ELSE <<sc - lo, hi - lo>>

\* the score that C28 gives the id
ClaimedScore(vr, kr, id) ==
    LET in_vector == \E i \in 1..Len(vr) : vr[i].chunk_id = id
        in_keyword == \E i \in 1..Len(kr) : kr[i].chunk_id = id
    IN IF in_vector /\ in_keyword
       THEN LET nv == NormVector(vr, id)
                nb == NormBm25(kr, id)
            IN <<7 * nv[1] * nb[2] + 3 * nb[1] * nv[2], 10 * nv[2] * nb[2]>>
       ELSE IF in_keyword
       THEN LET nb == NormBm25(kr, id) IN <<5 * nb[2] + 3 * nb[1], 10 * nb[2]>>
       ELSE NormVector(vr, id)

\* C28: a candidate id gets 0.7 * norm_vector + 0.3 * norm_bm25 when both
\* candidate sets hold it, 0.5 + 0.3 * norm_bm25 when only the keyword set
\* does and norm_vector when only the vector set does; norm_vector =
\* distance / max distance and norm_bm25 = (score - min) / (max - min) lie
\* in [0, 1], and nothing is divided by zero when a set is empty or all its
\* values are equal.
C28_CombinedScores ==
    op = "merge" =>
        LET vr == call.vector_results
            kr == call.bm25_results
            ids == {vr[i].chunk_id : i \in 1..Len(vr)} \cup {kr[i].chunk_id : i \in 1..Len(kr)}
        IN /\ {results[i].chunk_id : i \in 1..Len(results)} = ids
           /\ Len(results) = Cardinality(ids)
           /\ \A i \in 1..Len(results) :
                 RatEq(results[i].score, ClaimedScore(vr, kr, results[i].chunk_id))
           /\ \A i \in 1..Len(vr) : InUnit(NormVector(vr, vr[i].chunk_id))
           /\ \A i \in 1..Len(kr) : InUnit(NormBm25(kr, kr[i].chunk_id))

\* every distance is 0 and every keyword score is the same, and the merge
\* holds an id of both lists, one of the keyword list only and one of the
\* vector list only
C28_Witness ==
    /\ op = "merge"
    /\ \A i \in 1..Len(call.vector_results) : call.vector_results[i].distance = 0
    /\ \A i, j \in 1..Len(call.bm25_results) :
          call.bm25_results[i].bm25_score = call.bm25_results[j].bm25_score
    /\ \A o \in {"both", "keyword", "vector"} :
          \E i \in 1..Len(results) : results[i].origin = o

Procs == {1, 2}

\* the source files do not change while the processes run: every
\* conversation holds one exchange; two files have the same name
RaceInit ==
    /\ \E content \in [Range(SourcePaths) -> ExchangePool], later \in {1, 2} :
          sources = [p \in Range(SourcePaths) |->
                        [mtime |-> IF p = SourcePaths[3] THEN later ELSE 1,
                         content |-> <<content[p]>>, broken |-> FALSE]]
    /\ processed = [k \in FileKeys |-> NoMarker]
    /\ shards = [f \in Range(get_all_chunk_files) |-> <<>>]
    /\ ret = NoRet
    /\ events = 0
    /\ op = "init"
    /\ collection = <<>> /\ fts = <<>> /\ indexed = {} /\ results = <<>>
    /\ call = [i \in Procs |->
                  [pc |-> "start", processed |-> processed, existing |-> {},
                   files |-> SourcePaths, path |-> <<>>, todo |-> <<>>]]

RaceStep(i, local, name) ==
    /\ call' = [call EXCEPT ![i] = local]
    /\ op' = name
    /\ UNCHANGED <<sources, ret, events, collection, fts, indexed, results>>

\* processed = load_processed()
LoadProcessed(i) ==
    /\ call[i].pc = "start"
    /\ RaceStep(i, [call[i] EXCEPT !.pc = "ids", !.processed = processed], "load_processed")
    /\ UNCHANGED <<processed, shards>>

\* mutant: the run does not read the ids of the log
LoadExistingIds_Forgets(i) ==
    /\ call[i].pc = "ids"
    /\ RaceStep(i, [call[i] EXCEPT !.pc = "files", !.existing = {}],
                "load_existing_chunk_ids")
    /\ UNCHANGED <<processed, shards>>

\* existing_ids = load_existing_chunk_ids()
LoadExistingIds(i) ==
    /\ call[i].pc = "ids"
    /\ RaceStep(i, [call[i] EXCEPT !.pc = "files",
                                   !.existing = load_existing_chunk_ids(shards).ids],
                "load_existing_chunk_ids")
    /\ UNCHANGED <<processed, shards>>

\* the head of the loop over the files: the marker test, then the file is parsed
NextFile(i) ==
    /\ call[i].pc = "files" /\ call[i].files # <<>>
    /\ LET path == Head(call[i].files)
       IN RaceStep(i,
                   IF call[i].processed[FileKey(path)] = sources[path].mtime
                   THEN [call[i] EXCEPT !.files = Tail(@)]
                   ELSE [call[i] EXCEPT !.files = Tail(@), !.pc = "chunks", !.path = path,
                                        !.todo = chunk_conversation(sources[path].content)],
                   "next_file")
    /\ UNCHANGED <<processed, shards>>

\* one pass of the loop over the chunks of the file: the line is appended
\* if its id is not in existing_ids
AppendChunk(i) ==
    /\ call[i].pc = "chunks" /\ call[i].todo # <<>>
    /\ LET after == AppendNew(<<Head(call[i].todo)>>,
                              [existing |-> call[i].existing, appended |-> <<>>,
                               new_chunks |-> 0])
       IN /\ shards' = [shards EXCEPT ![CHUNKS_FILE] = @ \o after.appended]
          /\ RaceStep(i, [call[i] EXCEPT !.todo = Tail(@), !.existing = after.existing],
                      "append")
    /\ UNCHANGED processed

\* processed[file_key] = mtime
MarkProcessed(i) ==
    /\ call[i].pc = "chunks" /\ call[i].todo = <<>>
    /\ RaceStep(i, [call[i] EXCEPT !.pc = "files", !.path = <<>>,
                                   !.processed[FileKey(call[i].path)] =
                                       sources[call[i].path].mtime],
                "mark")
    /\ UNCHANGED <<processed, shards>>

\* save_processed(processed)
SaveProcessed(i) ==
    /\ call[i].pc = "files" /\ call[i].files = <<>>
    /\ processed' = call[i].processed
    /\ RaceStep(i, [call[i] EXCEPT !.pc = "done"], "save_processed")
    /\ UNCHANGED shards

RaceNext ==
    \E i \in Procs :
        \/ LoadProcessed(i)
        \/ LoadExistingIds(i)
        \/ NextFile(i)
        \/ AppendChunk(i)
        \/ MarkProcessed(i)
        \/ SaveProcessed(i)

SpecRace == RaceInit /\ [][RaceNext]_vars

\* the ids in the log after one run alone, from the same files and an empty log
AloneIds ==
    LET r == sync_chunks(sources, [k \in FileKeys |-> NoMarker],
                         [f \in Range(get_all_chunk_files) |-> <<>>])
    IN {r.appended[i].chunk.id : i \in 1..Len(r.appended)}

\* C30: when two sync_chunks processes of one machine run at the same time
\* over the same source files, then after both have ended, in whatever order
\* their reads and appends took place, load_all_chunks holds one chunk per
\* id, and the ids of a run alone.
C30_ConcurrentSyncAbsorbed ==
    (\A i \in Procs : call[i].pc = "done") =>
        LET r == load_all_chunks(shards)
        IN /\ ~r.raised
           /\ \A i, j \in 1..Len(r.chunks) : r.chunks[i].id = r.chunks[j].id => i = j
           /\ Ids(r.chunks) = AloneIds

\* both processes have ended and the shard holds a line twice
C30_Witness ==
    /\ \A i \in Procs : call[i].pc = "done"
    /\ \E i, j \in 1..Len(shards[CHUNKS_FILE]) :
          i # j /\ shards[CHUNKS_FILE][i].chunk.id = shards[CHUNKS_FILE][j].chunk.id

(***************************************************************************)
(* The ids that sync_chunks takes as present, and the loadable chunks.     *)
(***************************************************************************)
\* C34: whatever the shards hold, the ids that load_existing_chunk_ids
\* returns are the ids of the chunks that load_all_chunks returns, so
\* sync_chunks skips a produced chunk only if a chunk with its id can be
\* loaded from the log.
C34_ExistingIdsAreLoadable ==
    LET existing == load_existing_chunk_ids(shards)
        loaded == load_all_chunks(shards)
    IN (~existing.raised /\ ~loaded.raised) =>
          existing.ids = {loaded.chunks[i].id : i \in 1..Len(loaded.chunks)}

(***************************************************************************)
(* Completeness of a sync_chunks run.                                      *)
(***************************************************************************)
\* the ids that chunk_conversation produces from the files paths as they are now
ProducedFrom(paths) ==
    UNION { {c.id : c \in Range(chunk_conversation(sources[p].content))}
            : p \in {q \in paths : ~sources[q].broken} }

\* C33: after sync_chunks has ended without error, every chunk id that
\* chunk_conversation produces from a current source file, of whatever
\* project directory, is in the chunk log.
C33_SyncLeavesNoFileBehind ==
    (op = "sync" /\ ret # Raised) => ProducedFrom(Range(SourcePaths)) \subseteq LogIds(shards)

\* the same for the source files whose name no other project directory holds
SyncLeavesNoFileBehindUniqueNames ==
    (op = "sync" /\ ret # Raised) =>
        ProducedFrom({p \in Range(SourcePaths) :
                         \A q \in Range(SourcePaths) : FileKey(q) = FileKey(p) => q = p})
            \subseteq LogIds(shards)

(***************************************************************************)
(* A sync_chunks run that is interrupted, and the run after it             *)
(* (SpecInterrupt): the process 1 runs and is stopped between two of its   *)
(* steps, then the process 2 runs to its end.                              *)
(***************************************************************************)
\* the process 1 ends without reaching save_processed
Interrupt ==
    /\ call[1].pc \notin {"done", "dead"}
    /\ RaceStep(1, [call[1] EXCEPT !.pc = "dead"], "interrupt")
    /\ UNCHANGED <<processed, shards>>

\* the later run starts when the first one has been stopped
Turn(i) == i = 1 \/ call[1].pc = "dead"

InterruptNext ==
    \/ Interrupt
    \/ \E i \in Procs : Turn(i) /\ LoadProcessed(i)
    \/ \E i \in Procs : Turn(i) /\ LoadExistingIds(i)
    \/ \E i \in Procs : Turn(i) /\ NextFile(i)
    \/ \E i \in Procs : Turn(i) /\ AppendChunk(i)
    \/ \E i \in Procs : Turn(i) /\ MarkProcessed(i)
    \/ \E i \in Procs : Turn(i) /\ SaveProcessed(i)

SpecInterrupt == RaceInit /\ [][InterruptNext]_vars

\* the shards after one run alone, from the same files and an empty log
AloneShards ==
    LET r == sync_chunks(sources, [k \in FileKeys |-> NoMarker],
                         [f \in Range(get_all_chunk_files) |-> <<>>])
    IN [f \in Range(get_all_chunk_files) |->
           IF f = CHUNKS_FILE THEN r.appended ELSE <<>>]

\* C32: when a sync_chunks run is stopped after any number of appended
\* lines and before the marker table is saved, a later run that goes to
\* its end leaves the logical chunk set that a run without interruption
\* leaves, and no id is in two lines of the log.
C32_InterruptedSyncRecovered ==
    (call[1].pc = "dead" /\ call[2].pc = "done") =>
        LET r == load_all_chunks(shards)
            lines == AllLines(shards)
        IN /\ ~r.raised
           /\ Range(r.chunks) = Range(load_all_chunks(AloneShards).chunks)
           /\ \A i, j \in 1..Len(lines) : lines[i].chunk.id = lines[j].chunk.id => i = j

\* the first run was stopped in the middle, with lines appended and files
\* left, and the later run has ended
C32_Witness ==
    /\ call[1].pc = "dead" /\ call[2].pc = "done"
    /\ call[1].existing # {}
    /\ call[1].files # <<>>
    /\ call[2].existing # call[1].existing

(***************************************************************************)
(* The commands sync, summarize and rebuild of the CLI (SpecCli): the      *)
(* chunk log and the two indexes together.                                 *)
(***************************************************************************)
\* the part of cli sync after sync_chunks and the summaries: the early exit
\* when nothing is new and the counts agree, else both indexes are updated;
\* st = [shards, collection, fts, indexed]
UpdateIndexes(st, new_chunks) ==
    LET chunks == load_all_chunks(st.shards).chunks
    IN IF new_chunks = 0 /\ Len(chunks) = StoreCount(st.collection)
       THEN st
       ELSE LET text_indexed == add_batch(st.fts, st.indexed, chunks)
            IN [shards |-> st.shards,
                collection |-> rebuild_index(st.collection, chunks, DEFAULT_BATCH_SIZE).collection,
                fts |-> text_indexed.fts,
                indexed |-> text_indexed.indexed]

\* the command sync: sync_chunks, then sync_summaries if summaries are wanted,
\* a file had new chunks and ollama is there, then the indexes
cli_sync(src, proc, st, no_summaries, ollama, outcome) ==
    LET synced == sync_chunks(src, proc, st.shards)
        after_chunks == [st.shards EXCEPT ![CHUNKS_FILE] = @ \o synced.appended]
        wanted == ~no_summaries /\ synced.new_files > 0 /\ ollama
        summaries == sync_summaries(src, after_chunks, outcome)
        after_summaries == IF wanted
                           THEN [after_chunks EXCEPT ![CHUNKS_FILE] = @ \o summaries.appended]
                           ELSE after_chunks
    IN IF synced.raised
       THEN [st |-> [st EXCEPT !.shards = after_chunks], processed |-> synced.processed,
             raised |-> TRUE]
       ELSE IF wanted /\ summaries.raised
       THEN [st |-> [st EXCEPT !.shards = after_summaries], processed |-> synced.processed,
             raised |-> TRUE]
       ELSE [st |-> UpdateIndexes([st EXCEPT !.shards = after_summaries], synced.new_chunks),
             processed |-> synced.processed, raised |-> FALSE]

\* the command summarize: sync_summaries, then store.rebuild_index() if a
\* summary was generated or failed
cli_summarize(src, st, outcome) ==
    LET summaries == sync_summaries(src, st.shards, outcome)
        after == [st.shards EXCEPT ![CHUNKS_FILE] = @ \o summaries.appended]
    IN IF summaries.raised THEN [st |-> [st EXCEPT !.shards = after], raised |-> TRUE]
       ELSE IF summaries.generated > 0 \/ summaries.failed > 0
       THEN [st |-> [st EXCEPT !.shards = after,
                               !.collection = rebuild_index(st.collection,
                                                            load_all_chunks(after).chunks,
                                                            DEFAULT_BATCH_SIZE).collection],
             raised |-> FALSE]
       ELSE [st |-> [st EXCEPT !.shards = after], raised |-> FALSE]

\* the command rebuild: store.clear(), then store.rebuild_index()
cli_rebuild(st) ==
    [st EXCEPT !.collection = rebuild_index(<<>>, load_all_chunks(st.shards).chunks,
                                            DEFAULT_BATCH_SIZE).collection]

Disk == [shards |-> shards, collection |-> collection, fts |-> fts, indexed |-> indexed]

\* the disk after a command
Ran(st, raised, name) ==
    /\ shards' = st.shards
    /\ collection' = st.collection
    /\ fts' = st.fts
    /\ indexed' = st.indexed
    /\ ret' = IF raised THEN Raised ELSE NoRet
    /\ op' = name
    /\ UNCHANGED <<sources, events, results, call>>

CliSync(no_summaries, ollama, outcome) ==
    LET r == cli_sync(sources, processed, Disk, no_summaries, ollama, outcome)
    IN Ran(r.st, r.raised, "cli_sync") /\ processed' = r.processed

CliSummarize(outcome) ==
    LET r == cli_summarize(sources, Disk, outcome)
    IN Ran(r.st, r.raised, "cli_summarize") /\ UNCHANGED processed

CliRebuild == Ran(cli_rebuild(Disk), FALSE, "cli_rebuild") /\ UNCHANGED processed

\* what ollama does in the runs of the commands: it prints a summary or fails
CliOutcomes == {"ok", "timeout"}

\* the exchange by which the conversation of the file p goes on
NextExchange(p) ==
    IF Stem(p) = <<"s", "1">> THEN Exchange(<<"b", "2">>, 100, 600)
    ELSE Exchange(<<"a", "1">>, 10, 50)

NextCli ==
    \/ \E p \in Range(SourcePaths) : AppendExchange(p, NextExchange(p)) /\ UNCHANGED idxVars
    \/ \E no_summaries \in BOOLEAN, ollama \in BOOLEAN, outcome \in [Summarizable -> CliOutcomes] :
          /\ (no_summaries \/ ~ollama) => \A q \in Summarizable : outcome[q] = "timeout"
          /\ CliSync(no_summaries, ollama, outcome)
    \/ \E outcome \in [Summarizable -> CliOutcomes] : CliSummarize(outcome)
    \/ CliRebuild

SpecCli == InitSummary /\ [][NextCli]_vars

\* the ids of the logical chunk set
LogicalIds == Ids(load_all_chunks(shards).chunks)

\* C31: when the command sync has ended, after whatever sequence of the
\* commands sync, summarize and rebuild, the vector index and the keyword
\* index both hold exactly the ids of the logical chunk set.
C31_SyncLeavesIndexesComplete ==
    (op = "cli_sync" /\ ret # Raised) =>
        /\ Ids(collection) = LogicalIds
        /\ indexed = LogicalIds
        /\ {fts[i].chunk_id : i \in 1..Len(fts)} = LogicalIds

\* the same for the vector index alone
SyncLeavesVectorIndexComplete ==
    (op = "cli_sync" /\ ret # Raised) => Ids(collection) = LogicalIds

(***************************************************************************)
(* The end of Store.search over candidate lists that hold fragments        *)
(* (SpecDedupe): merge, sort, conversion and deduplication.                *)
(***************************************************************************)
\* the chunks of the log that the candidates are drawn from: two unsplit
\* turns and the two fragments of a split turn
DedupeCandidates == <<TurnA, TurnC>> \o TurnQ

\* the orders of k distinct candidates
DedupePicks(k) ==
    {p \in [1..k -> 1..Len(DedupeCandidates)] : \A i, j \in 1..k : i # j => p[i] # p[j]}

\* what Store._vector_search can return, nearest first
RankedVectorLists ==
    UNION {{[i \in 1..k |-> [chunk_id |-> DedupeCandidates[p[i]].id, distance |-> i - 1,
                             metadata |-> Metadata(DedupeCandidates[p[i]]), key |-> i - 1]] :
               p \in DedupePicks(k)} : k \in 0..MaxCand}

\* what TextIndex.search can return, best first
RankedKeywordLists ==
    UNION {{[i \in 1..k |-> [chunk_id |-> DedupeCandidates[p[i]].id,
                             text |-> DedupeCandidates[p[i]].text,
                             bm25_score |-> i - k - 1, key |-> i - k - 1]] :
               p \in DedupePicks(k)} : k \in 0..MaxCand}

\* sorted_results and search_results of Store.search, each result with the
\* chunk id of its scores entry
SortedResults(scores) ==
    LET sorted_results == SortScores(scores)
    IN [i \in 1..Len(sorted_results) |->
           SearchResult(sorted_results[i]) @@ [chunk_id |-> sorted_results[i].chunk_id]]

\* the results that Store.search returns from search_results
Returned(search_results, n, dedupe_splits) ==
    IF dedupe_splits THEN DedupeLoop(search_results, {}, <<>>, n)
    ELSE SubSeq(search_results, 1, Min(n, Len(search_results)))

\* the log holds the candidates, the search has not run
InitDedupe ==
    /\ sources = [p \in Range(SourcePaths) |->
                     [mtime |-> 0, content |-> <<>>, broken |-> FALSE]]
    /\ processed = [k \in FileKeys |-> NoMarker]
    /\ shards = [f \in Range(get_all_chunk_files) |->
                    IF f = CHUNKS_FILE THEN RecLines(DedupeCandidates) ELSE <<>>]
    /\ ret = NoRet
    /\ events = 0
    /\ op = "init"
    /\ IdxIdle

\* lines 165-262 of Store.search on given candidate lists
MergeAndDedupe(vector_results, bm25_results, n, dedupe_splits) ==
    /\ op = "init"
    /\ results' = Returned(SortedResults(MergeResults(VectorScores(vector_results),
                                                     bm25_results)),
                           n, dedupe_splits)
    /\ call' = [vector_results |-> vector_results, bm25_results |-> bm25_results,
                n |-> n, dedupe_splits |-> dedupe_splits]
    /\ op' = "dedupe"
    /\ UNCHANGED <<collection, fts, indexed>>
    /\ UNCHANGED logVars

NextDedupe ==
    \E vector_results \in RankedVectorLists, bm25_results \in RankedKeywordLists,
       n \in 1..MaxN, dedupe_splits \in BOOLEAN :
        MergeAndDedupe(vector_results, bm25_results, n, dedupe_splits)

SpecDedupe == InitDedupe /\ [][NextDedupe]_vars

\* search_results of the search that produced this state
LastSearchResults ==
    SortedResults(MergeResults(VectorScores(call.vector_results), call.bm25_results))

\* the parent turn of the chunk id in the chunk log, <<>> for an unsplit chunk
ParentInLog(id) ==
    LET chunks == load_all_chunks(shards).chunks
    IN IF \E i \in 1..Len(chunks) : chunks[i].id = id
       THEN (CHOOSE c \in Range(chunks) : c.id = id).parent_turn_id
       ELSE <<>>

\* C35: with dedupe_splits=True, Store.search returns no two results whose
\* chunk ids are fragments of one split exchange in the chunk log, whether
\* the vector index or only the keyword index found them.
C35_NoTwoFragmentsOfOneExchange ==
    (op = "dedupe" /\ call.dedupe_splits) =>
        \A i, j \in 1..Len(results) :
            (i # j /\ ParentInLog(results[i].chunk_id) # <<>>)
                => ParentInLog(results[i].chunk_id) # ParentInLog(results[j].chunk_id)

\* the same when the vector results hold every fragment that the keyword
\* results hold
NoTwoFragmentsFoundByVector ==
    (/\ op = "dedupe" /\ call.dedupe_splits
     /\ \A i \in 1..Len(call.bm25_results) :
           ParentInLog(call.bm25_results[i].chunk_id) # <<>>
               => \E j \in 1..Len(call.vector_results) :
                     call.vector_results[j].chunk_id = call.bm25_results[i].chunk_id) =>
        \A i, j \in 1..Len(results) :
            (i # j /\ ParentInLog(results[i].chunk_id) # <<>>)
                => ParentInLog(results[i].chunk_id) # ParentInLog(results[j].chunk_id)

\* the results without a parent turn, in order
UnsplitOf(rs) == SelectSeq(rs, LAMBDA r : r.parent_turn_id = <<>>)

\* C36: with dedupe_splits=True, Store.search drops no result whose
\* parent_turn_id is empty because of the deduplication: the unsplit results
\* returned are the first of the unsplit results in sorted order, all of
\* them when fewer than n results are returned, and from a sorted list of
\* unsplit results only, the first n are returned.
C36_UnsplitNeverMerged ==
    (op = "dedupe" /\ call.dedupe_splits) =>
        LET all == LastSearchResults
            kept == UnsplitOf(results)
        IN /\ Len(kept) <= Len(UnsplitOf(all))
           /\ kept = SubSeq(UnsplitOf(all), 1, Len(kept))
           /\ Len(results) < call.n => kept = UnsplitOf(all)
           /\ UnsplitOf(all) = all => results = SubSeq(all, 1, Min(call.n, Len(all)))

\* a deduplicating search over three or more unsplit results next to a
\* fragment, that returned two unsplit results
C36_Witness ==
    /\ op = "dedupe" /\ call.dedupe_splits
    /\ Len(UnsplitOf(LastSearchResults)) >= 3
    /\ Len(UnsplitOf(LastSearchResults)) < Len(LastSearchResults)
    /\ Len(UnsplitOf(results)) = 2

(***************************************************************************)
(* Properties of recursive_split (checked under SpecChunk): the texts are  *)
(* those that create_chunks_with_context joins from the transcript.        *)
(***************************************************************************)
\* the text of each exchange of the transcript joined with its context
JoinedTexts ==
    LET exchanges == Exchanges(call)
    IN {JoinParts(SubSeq(exchanges, Max(1, i - CONTEXT_BEFORE),
                         Min(Len(exchanges), i + CONTEXT_AFTER))) : i \in 1..Len(exchanges)}

\* C37: every piece that recursive_split returns is at most MAX_CHUNK_CHARS
\* long, and a text of at most MAX_CHUNK_CHARS is returned as the one piece,
\* unchanged.
C37_PiecesWithinLimit ==
    op = "chunk" =>
        \A atoms \in JoinedTexts :
            LET pieces == recursive_split(atoms)
            IN /\ \A i \in 1..Len(pieces) : AtomsLen(pieces[i]) <= MAX_CHUNK_CHARS
               /\ AtomsLen(atoms) <= MAX_CHUNK_CHARS => pieces = <<atoms>>

\* the second half of C37 on its own
ShortTextUnchanged ==
    op = "chunk" =>
        \A atoms \in JoinedTexts :
            AtomsLen(atoms) <= MAX_CHUNK_CHARS => recursive_split(atoms) = <<atoms>>

\* the words of a stretch of text in order; a run of spaces counts as one
\* word, and of the hard cuts of a word only the first one counts
WordsIn(a) ==
    IF a.words = <<>> THEN <<Word(<<" ">>, a.len)>>
    ELSE IF a.k = "h" /\ a.from > 0 THEN <<>>
    ELSE a.words

WordsOfAtoms(atoms) == Concat([i \in 1..Len(atoms) |-> WordsIn(atoms[i])])

\* C38: for a text longer than MAX_CHUNK_CHARS, the pieces of
\* recursive_split read in order hold every separator-delimited part of the
\* text once, in the order of the text (hard cuts of one word apart).
C38_PiecesCoverInOrder ==
    op = "chunk" =>
        \A atoms \in JoinedTexts :
            AtomsLen(atoms) > MAX_CHUNK_CHARS =>
                WordsOfAtoms(Concat(recursive_split(atoms))) = WordsOfAtoms(atoms)

\* the same for the texts in which no paragraph and no word is longer than
\* MAX_CHUNK_CHARS
PiecesCoverInOrderNoOversizePart ==
    op = "chunk" =>
        \A atoms \in JoinedTexts :
            (AtomsLen(atoms) > MAX_CHUNK_CHARS
                /\ \A i \in 1..Len(atoms) : atoms[i].len <= MAX_CHUNK_CHARS) =>
                WordsOfAtoms(Concat(recursive_split(atoms))) = WordsOfAtoms(atoms)

(***************************************************************************)
(* The ids and the split fields of the chunks of one exchange (checked     *)
(* under SpecChunk).                                                       *)
(***************************************************************************)
\* the chunks of the results made for the exchange i, in order
ChunksOfExchange(i) == SelectSeq(results, LAMBDA c : c.turn_index = i - 1)

\* C39: when create_chunks_with_context splits an exchange into k >= 2
\* fragments, fragment i (0 <= i < k) has the id base_id-i, parent_turn_id
\* base_id, chunk_index i and total_chunks k, where base_id is the id of the
\* assistant message; an exchange that is not split gives one chunk with id
\* base_id, empty parent_turn_id, chunk_index 0 and total_chunks 1.
C39_FragmentIdsAndFields ==
    op = "chunk" =>
        LET exchanges == Exchanges(call)
        IN \A i \in 1..Len(exchanges) :
              LET mine == ChunksOfExchange(i)
                  base_id == exchanges[i].assistant.uuid
                  k == Len(mine)
              IN /\ k >= 1
                 /\ mine = create_chunks_with_context(exchanges, i)
                 /\ k >= 2 =>
                       \A j \in 1..k :
                          /\ mine[j].id = base_id \o <<"-">> \o Digits(j - 1)
                          /\ mine[j].parent_turn_id = base_id
                          /\ mine[j].chunk_index = j - 1
                          /\ mine[j].total_chunks = k
                 /\ k = 1 =>
                       /\ mine[1].id = base_id
                       /\ mine[1].parent_turn_id = <<>>
                       /\ mine[1].chunk_index = 0
                       /\ mine[1].total_chunks = 1

\* a transcript with two exchanges, one of them in three or more fragments
C39_Witness ==
    /\ op = "chunk"
    /\ Len(Exchanges(call)) = 2
    /\ \E i \in 1..Len(Exchanges(call)) : Len(ChunksOfExchange(i)) >= 3

\* a transcript with an exchange that is not split
UnsplitExchangeReached ==
    /\ op = "chunk"
    /\ \E i \in 1..Len(Exchanges(call)) : Len(ChunksOfExchange(i)) = 1

(***************************************************************************)
(* TextIndex.add, add_batch and clear on one database (SpecText).          *)
(* fts and indexed are the tables as the open connection sees them,        *)
(* call.committed is what the last commit wrote, call.offered the ids      *)
(* handed to add and add_batch since the last clear.                       *)
(***************************************************************************)
MaxBatch == 2

\* the chunks handed to the index: two texts for the id a1, and two more ids
TextChunks == <<TurnA, TurnALater, TurnC, TurnQ[1]>>

\* the batches of up to MaxBatch chunks, repeated ids included
Batches == UNION {[1..k -> Range(TextChunks)] : k \in 1..MaxBatch}

InitText ==
    /\ LogInit
    /\ op = "init"
    /\ collection = <<>> /\ fts = <<>> /\ indexed = {}
    /\ results = [ret |-> 0, raised |-> FALSE]
    /\ call = [committed |-> [fts |-> <<>>, indexed |-> {}], offered |-> {},
               raised |-> FALSE]

\* the tables, the committed tables and the returned value after a call
Called(tables, commit, offered, returned, raised, name) ==
    /\ fts' = tables.fts
    /\ indexed' = tables.indexed
    /\ call' = [committed |-> IF commit THEN [fts |-> tables.fts, indexed |-> tables.indexed]
                              ELSE call.committed,
                offered |-> offered,
                raised |-> call.raised \/ raised]
    /\ results' = [ret |-> returned, raised |-> raised]
    /\ op' = name
    /\ UNCHANGED logVars

\* text_index.add(...): returns before the commit when the id is indexed
TextAdd(c) ==
    /\ Called(add(fts, indexed, c), c.id \notin indexed, call.offered \cup {c.id},
              0, FALSE, "add")
    /\ UNCHANGED collection

\* text_index.add_batch(...): no commit when nothing is new or when it raises
TextAddBatch(batch) ==
    LET r == add_batch(fts, indexed, batch)
    IN /\ Called(r, r.ret > 0 /\ ~r.raised, call.offered \cup Ids(batch),
                 IF r.raised THEN 0 ELSE r.ret, r.raised, "add_batch")
       /\ UNCHANGED collection

\* text_index.clear()
TextIndexClear ==
    /\ Called([fts |-> <<>>, indexed |-> {}], TRUE, {}, 0, FALSE, "clear")
    /\ UNCHANGED collection

\* the connection is closed with a transaction open, and the database is
\* opened again: what was not committed is gone
Reopen ==
    /\ [fts |-> fts, indexed |-> indexed] # call.committed
    /\ Called(call.committed, FALSE, call.offered, 0, FALSE, "reopen")
    /\ UNCHANGED collection

NextText ==
    \/ \E c \in Range(TextChunks) : TextAdd(c)
    \/ \E batch \in Batches : TextAddBatch(batch)
    \/ TextIndexClear
    \/ Reopen

SpecText == InitText /\ [][NextText]_vars

\* the searchable documents of the id
Documents(id) == {i \in 1..Len(fts) : fts[i].chunk_id = id}

\* C40: after any sequence of TextIndex.add, add_batch and clear calls,
\* batches that repeat an id included, every indexed chunk id has exactly
\* one searchable document, no document exists for an id that is not
\* recorded as indexed, and count() equals the number of distinct ids added
\* since the last clear.
C40_OneDocumentPerIndexedId ==
    /\ \A id \in indexed : Cardinality(Documents(id)) = 1
    /\ \A i \in 1..Len(fts) : fts[i].chunk_id \in indexed
    /\ Cardinality(indexed) = Cardinality(call.offered)

\* the same as long as no add_batch call has raised
OneDocumentPerIndexedIdUntilRaise ==
    ~call.raised =>
        /\ \A id \in indexed : Cardinality(Documents(id)) = 1
        /\ \A i \in 1..Len(fts) : fts[i].chunk_id \in indexed
        /\ Cardinality(indexed) = Cardinality(call.offered)

====
